---- MODULE Spec2Model ----
(***************************************************************************)
(* A model of keylevels-ai's level-detection engines and of the route and  *)
(* cache that serve them.                                                  *)
(*                                                                         *)
(*   - KeyLevelsDetector.detect_zones      (services/key_levels.py)        *)
(*   - InstitutionalKeyLevels.detect_levels                                *)
(*                              (services/institutional_key_levels.py)    *)
(*   - get_key_levels, get_market_data and CacheService                    *)
(*                                     (api/routes.py, services/cache.py)  *)
(*   - YFinanceProvider.get_ohlcv and its fallbacks                        *)
(*                                     (services/data_provider.py)         *)
(*                                                                         *)
(* Numbers.  The code computes in IEEE doubles.  The model computes in     *)
(* decimal fixed point: a price, a score or a multiplier x is the integer  *)
(* x * Unit, products and quotients round towards minus infinity.  The one *)
(* IEEE behaviour that changes results, a division by zero giving NaN, is  *)
(* modelled explicitly (NaN below).  Timestamps are whole hours.           *)
(***************************************************************************)
EXTENDS Integers, Sequences, FiniteSets, TLC

VARIABLES
    df,        \* the OHLCV series handed to the detector (a sequence of bars)
    detector,  \* the detector object: its class and its configuration fields
    result,    \* what the last call returned or raised
    calls,     \* number of detect calls made on the detector
    cache,     \* the Redis store: the entries [key, value, expires] not yet expired
    redisUp,   \* whether the Redis client answers or raises
    reqs,      \* the requests to the routes: position, locals, response
    computed,  \* the fresh computations made: [req, key, at]
    now,       \* the clock, in ticks
    last_request_time,  \* AlphaVantageProvider._last_request_time, shared by every caller
    callers,   \* the callers of AlphaVantageProvider.get_ohlcv: position and locals
    sent       \* the HTTP requests issued to Alpha Vantage: [caller, at]

engineVars == <<df, detector, result, calls>>
routeVars == <<cache, redisUp, reqs, computed, now>>
limiterVars == <<last_request_time, callers, sent>>
vars == <<df, detector, result, calls, cache, redisUp, reqs, computed, now,
          last_request_time, callers, sent>>

(***************************************************************************)
(* Fixed point                                                             *)
(***************************************************************************)
\* 1.0 in fixed point (three decimals).
Unit == 10 * 100

\* The value a float takes after 0/0 or x/0 and everything computed from it.
NaN == 0 - 987654321

IsNaN(x) == x = NaN

\* The value a float takes after x/0 with x > 0: above every finite number.
Inf == 0 + 987654321

Abs(x) == IF x < 0 THEN -x ELSE x

Max2(a, b) == IF a >= b THEN a ELSE b

Min2(a, b) == IF a <= b THEN a ELSE b

\* a * b of two fixed-point numbers.
Mul(a, b) == (a * b) \div Unit

\* a / b of two fixed-point numbers, b # 0.
Div(a, b) == (a * Unit) \div b

\* The sum of f[i] for i in lo..hi (by halves, to keep the evaluation shallow).
RECURSIVE SumOver(_, _, _)
SumOver(f, lo, hi) ==
    IF lo > hi THEN 0
    ELSE IF lo = hi THEN f[lo]
    ELSE LET m == (lo + hi) \div 2
         IN  SumOver(f, lo, m) + SumOver(f, m + 1, hi)

\* The largest and the smallest of f[i] for i in lo..hi (lo <= hi).
RECURSIVE MaxOver(_, _, _)
MaxOver(f, lo, hi) ==
    IF lo >= hi THEN f[lo]
    ELSE LET m == (lo + hi) \div 2
         IN  Max2(MaxOver(f, lo, m), MaxOver(f, m + 1, hi))

RECURSIVE MinOver(_, _, _)
MinOver(f, lo, hi) ==
    IF lo >= hi THEN f[lo]
    ELSE LET m == (lo + hi) \div 2
         IN  Min2(MinOver(f, lo, m), MinOver(f, m + 1, hi))

\* f[lo] \o ... \o f[hi]
RECURSIVE ConcatOver(_, _, _)
ConcatOver(f, lo, hi) ==
    IF lo > hi THEN <<>>
    ELSE IF lo = hi THEN f[lo]
    ELSE LET m == (lo + hi) \div 2
         IN  ConcatOver(f, lo, m) \o ConcatOver(f, m + 1, hi)

Highs(bars) == [i \in 1..Len(bars) |-> bars[i].high]

Lows(bars) == [i \in 1..Len(bars) |-> bars[i].low]

Closes(bars) == [i \in 1..Len(bars) |-> bars[i].close]

(***************************************************************************)
(* Python built-ins the engines rely on                                    *)
(***************************************************************************)
\* a < b on floats: false whenever an operand is NaN.
FloatLt(a, b) == ~IsNaN(a) /\ ~IsNaN(b) /\ a < b

\* Python's min(a, b) and max(a, b): the first argument unless the second
\* compares strictly below (above) it, so a NaN second argument is dropped and
\* a NaN first argument is kept.
PyMin(a, b) == IF FloatLt(b, a) THEN b ELSE a

PyMax(a, b) == IF FloatLt(a, b) THEN b ELSE a

\* Float arithmetic on non-negative operands that propagates NaN and
\* infinity.
FAdd(a, b) ==
    IF IsNaN(a) \/ IsNaN(b) THEN NaN
    ELSE IF a = Inf \/ b = Inf THEN Inf
    ELSE a + b

FMul(a, b) ==
    IF IsNaN(a) \/ IsNaN(b) THEN NaN
    ELSE IF a = Inf \/ b = Inf THEN (IF a = 0 \/ b = 0 THEN NaN ELSE Inf)
    ELSE Mul(a, b)

\* numpy's a / b for a >= 0, b >= 0: 0/0 is NaN and x/0 is infinity (a
\* RuntimeWarning, not an exception).
FDiv(a, b) ==
    IF IsNaN(a) \/ IsNaN(b) THEN NaN
    ELSE IF b = 0 THEN (IF a = 0 THEN NaN ELSE Inf)
    ELSE IF a = Inf THEN Inf
    ELSE Div(a, b)

Reverse(s) == [i \in 1..Len(s) |-> s[Len(s) + 1 - i]]

\* s[:n]
SliceTo(s, n) ==
    LET m == IF n >= 0 THEN Min2(n, Len(s)) ELSE Max2(Len(s) + n, 0)
    IN  SubSeq(s, 1, m)

\* list.sort's binary insertion of s[start] into the sorted prefix
\* s[1..start-1]: the leftmost place after every element the pivot is not
\* below.
RECURSIVE BinaryPlace(_, _, _, _)
BinaryPlace(keys, pivot, l, r) ==
    IF l >= r THEN l
    ELSE LET p == l + ((r - l) \div 2)
         IN  IF FloatLt(pivot, keys[p]) THEN BinaryPlace(keys, pivot, l, p)
             ELSE BinaryPlace(keys, pivot, p + 1, r)

InsertAt(s, k, x) == SubSeq(s, 1, k - 1) \o <<x>> \o SubSeq(s, k, Len(s))

\* The pairs <<key, item>> of s[1..start-1] are sorted; insert the rest.
RECURSIVE BinarySort(_, _)
BinarySort(ks, start) ==
    IF start > Len(ks) THEN ks
    ELSE LET keys == [i \in 1..(start - 1) |-> ks[i][1]]
             k == BinaryPlace(keys, ks[start][1], 1, start)
         IN  BinarySort(InsertAt(SubSeq(ks, 1, start - 1), k, ks[start])
                            \o SubSeq(ks, start + 1, Len(ks)), start + 1)

\* list.sort's count_run: the length of the run that starts the list, and
\* whether it is strictly descending.
RECURSIVE RunLength(_, _, _)
RunLength(ks, n, descending) ==
    IF n >= Len(ks) THEN n
    ELSE IF descending = FloatLt(ks[n + 1][1], ks[n][1])
         THEN RunLength(ks, n + 1, descending)
         ELSE n

\* sorted(items, key=..., reverse=...) as CPython sorts a list of fewer than
\* 64 items: the first run, reversed if descending, then binary insertion;
\* reverse=True reverses before and after, which keeps equal keys in their
\* original order.  keys[i] is the key of items[i].
PySorted(items, keys, reverse) ==
    LET n == Len(items)
        ks0 == [i \in 1..n |-> <<keys[i], items[i]>>]
        ks == IF reverse THEN Reverse(ks0) ELSE ks0
        desc == n >= 2 /\ FloatLt(ks[2][1], ks[1][1])
        run == IF n < 2 THEN n ELSE RunLength(ks, 2, desc)
        pre == IF desc THEN Reverse(SubSeq(ks, 1, run)) \o SubSeq(ks, run + 1, n)
               ELSE ks
        done == BinarySort(pre, run + 1)
        out == IF reverse THEN Reverse(done) ELSE done
    IN  [i \in 1..n |-> out[i][2]]

(***************************************************************************)
(* Input series                                                            *)
(*                                                                         *)
(* A bar is [time, open, high, low, close, volume].  The engines are pure  *)
(* functions of the series, so the inputs are drawn from a bounded family: *)
(* a price path (a base close and a cyclic pattern of close-to-close       *)
(* moves, with a second pattern after a switch bar), a wick, a volume      *)
(* profile, and a length.  Every bar satisfies the Bar invariant           *)
(* low <= min(open, close) <= max(open, close) <= high, volume >= 0, and   *)
(* timestamps are strictly increasing (daily bars).                        *)
(***************************************************************************)
\* Longest of the short series (the deterministic engine's boundary cases).
MaxShortLen == 9

\* Bars beyond the institutional engine's minimum in the long series.
MaxExtraBars == 0

Shapes ==
    << \* 1: flat, identical bars
       [base |-> 100000, wick |-> 0, first |-> <<0>>, switch |-> 0, second |-> <<0>>],
       \* 2: a range, swinging between 100 and 103
       [base |-> 100000, wick |-> 500, first |-> <<1000, 1000, 1000, -1000, -1000, -1000>>,
        switch |-> 0, second |-> <<1000, 1000, 1000, -1000, -1000, -1000>>],
       \* 3: a rising market with pull-backs
       [base |-> 100000, wick |-> 500, first |-> <<3000, -1000, 3000, -2000>>,
        switch |-> 0, second |-> <<3000, -1000, 3000, -2000>>],
       \* 4: a falling market with rallies
       [base |-> 190000, wick |-> 500, first |-> <<-3000, 1000, -3000, 2000>>,
        switch |-> 0, second |-> <<-3000, 1000, -3000, 2000>>],
       \* 5: a tight consolidation, then an expansion upwards
       [base |-> 100000, wick |-> 300, first |-> <<600, -600>>,
        switch |-> 26, second |-> <<4000, 4000, -2000>>],
       \* 6: a range broken by a sell-off that never returns
       [base |-> 100000, wick |-> 500, first |-> <<2000, -2000, 1000, -1000>>,
        switch |-> 30, second |-> <<-6000, -1000, 1000>>],
       \* 7: a currency pair quoted near 1.005, moving by thousandths
       [base |-> 1005, wick |-> 1, first |-> <<-4, 5, -3, 2>>,
        switch |-> 0, second |-> <<-4, 5, -3, 2>>]
    >>

MoveAt(shape, i) ==
    IF i <= shape.switch
    THEN shape.first[((i - 2) % Len(shape.first)) + 1]
    ELSE LET k == IF shape.switch = 0 THEN i - 2 ELSE i - shape.switch - 1
         IN  shape.second[(k % Len(shape.second)) + 1]

\* Volume profiles: 0 = no volume reported (an index or a currency pair),
\* 1 = the same volume on every bar, 2 = every third bar heavy,
\* 3 = every other bar heavy.
VolumeAt(profile, i) ==
    CASE profile = 0 -> 0
      [] profile = 1 -> 10
      [] profile = 2 -> IF i % 3 = 0 THEN 30 ELSE 10
      [] OTHER -> IF i % 2 = 0 THEN 20 + i ELSE 10

HoursPerBar == 24

MakeBar(i, prev, c, wick, vol) ==
    LET o == c - ((c - prev) \div 2)
    IN  [time |-> HoursPerBar * i, open |-> o, high |-> Max2(o, c) + wick,
         low |-> Min2(o, c) - wick, close |-> c, volume |-> vol]

RECURSIVE BuildSeries(_, _, _, _, _)
BuildSeries(shape, profile, n, i, acc) ==
    IF i > n THEN acc
    ELSE LET prev == IF i = 1 THEN shape.base ELSE acc[i - 1].close
             c == IF i = 1 THEN shape.base ELSE prev + MoveAt(shape, i)
         IN  BuildSeries(shape, profile, n, i + 1,
                         Append(acc, MakeBar(i, prev, c, shape.wick, VolumeAt(profile, i))))

MakeSeries(s, profile, n) == BuildSeries(Shapes[s], profile, n, 1, <<>>)

BarInvariant(b) ==
    /\ b.low <= Min2(b.open, b.close)
    /\ Max2(b.open, b.close) <= b.high
    /\ b.volume >= 0

IsSeries(bars) ==
    /\ \A i \in 1..Len(bars) : BarInvariant(bars[i])
    /\ \A i \in 1..(Len(bars) - 1) : bars[i].time < bars[i + 1].time

(***************************************************************************)
(* KeyLevelsDetector (services/key_levels.py)                              *)
(***************************************************************************)
\* tr = max(high - low, |high - close.shift(1)|, |low - close.shift(1)|); the
\* first bar has no previous close and max(axis=1) skips the NaN.
TrueRange(bars) ==
    [i \in 1..Len(bars) |->
        IF i = 1 THEN bars[i].high - bars[i].low
        ELSE Max2(bars[i].high - bars[i].low,
                  Max2(Abs(bars[i].high - bars[i - 1].close),
                       Abs(bars[i].low - bars[i - 1].close)))]

\* tr.rolling(window=period).mean().iloc[-1]: the mean of the last `period`
\* true ranges, NaN when the series is shorter than the window.
RollingAtr(bars, period) ==
    IF period <= 0 \/ Len(bars) < period THEN NaN
    ELSE SumOver(TrueRange(bars), Len(bars) - period + 1, Len(bars)) \div period

\* KeyLevelsDetector._calculate_atr
CalculateAtr(bars, period) ==
    LET atr == RollingAtr(bars, period)
        range == [i \in 1..Len(bars) |-> bars[i].high - bars[i].low]
    IN  IF ~IsNaN(atr) THEN atr
        ELSE IF Len(bars) = 0 THEN NaN
        ELSE SumOver(range, 1, Len(bars)) \div Len(bars)

\* IsPivotHigh with a tie counted as a pivot.
IsPivotHighOrTied(bars, window, i) ==
    \A j \in 1..window :
        ~(bars[i].high < bars[i - j].high \/ bars[i].high < bars[i + j].high)

\* KeyLevelsDetector._find_pivot_highs: bar i (1-based) for
\* window < i <= n - window whose high is strictly above the highs of the
\* `window` bars on each side.  A pivot is <<time, price>>.
IsPivotHigh(bars, window, i) ==
    \A j \in 1..window :
        ~(bars[i].high <= bars[i - j].high \/ bars[i].high <= bars[i + j].high)

FindPivotHighs(bars, window) ==
    LET One(i) == IF IsPivotHigh(bars, window, i)
                  THEN <<(<<bars[i].time, bars[i].high>>)>> ELSE <<>>
    IN  ConcatOver([i \in (window + 1)..(Len(bars) - window) |-> One(i)],
                   window + 1, Len(bars) - window)

\* KeyLevelsDetector._find_pivot_lows
IsPivotLow(bars, window, i) ==
    \A j \in 1..window :
        ~(bars[i].low >= bars[i - j].low \/ bars[i].low >= bars[i + j].low)

FindPivotLows(bars, window) ==
    LET One(i) == IF IsPivotLow(bars, window, i)
                  THEN <<(<<bars[i].time, bars[i].low>>)>> ELSE <<>>
    IN  ConcatOver([i \in (window + 1)..(Len(bars) - window) |-> One(i)],
                   window + 1, Len(bars) - window)

\* KeyLevelsDetector._create_zone.  The id is the md5 of
\* f"{zone_type}_{center:.2f}_{len(cluster)}": the model keeps the hashed
\* text, the type, the center rounded to two decimals and the cluster size.
Round2(x) == (x + 5) \div 10

\* CreateZone with last_touch_time taken from the cluster's last pivot, the
\* highest in price, instead of max(times).
CreateZoneLastPivot(cluster, tolerance, zone_type) ==
    LET prices == [i \in 1..Len(cluster) |-> cluster[i][2]]
        center == SumOver(prices, 1, Len(cluster)) \div Len(cluster)
    IN  [id |-> <<zone_type, Round2(center), Len(cluster)>>,
         type |-> zone_type,
         price_low |-> center - (tolerance \div 2),
         price_high |-> center + (tolerance \div 2),
         touches |-> Len(cluster),
         last_touch_time |-> cluster[Len(cluster)][1],
         strength |-> 0]

CreateZone(cluster, tolerance, zone_type) ==
    LET prices == [i \in 1..Len(cluster) |-> cluster[i][2]]
        times == [i \in 1..Len(cluster) |-> cluster[i][1]]
        center == SumOver(prices, 1, Len(cluster)) \div Len(cluster)
    IN  [id |-> <<zone_type, Round2(center), Len(cluster)>>,
         type |-> zone_type,
         price_low |-> center - (tolerance \div 2),
         price_high |-> center + (tolerance \div 2),
         touches |-> Len(cluster),
         last_touch_time |-> MaxOver(times, 1, Len(cluster)),
         strength |-> 0]

\* KeyLevelsDetector._cluster_levels: the pivots sorted by price; a pivot
\* joins the current cluster when its price is within tolerance of the
\* previous pivot's price, else the cluster is closed and a new one starts.
RECURSIVE ClusterSorted(_, _, _, _, _, _)
ClusterSorted(sorted, tolerance, zone_type, i, current, zones) ==
    IF i > Len(sorted)
    THEN Append(zones, CreateZone(current, tolerance, zone_type))
    ELSE IF Abs(sorted[i][2] - sorted[i - 1][2]) <= tolerance
         THEN ClusterSorted(sorted, tolerance, zone_type, i + 1,
                            Append(current, sorted[i]), zones)
         ELSE ClusterSorted(sorted, tolerance, zone_type, i + 1, <<sorted[i]>>,
                            Append(zones, CreateZone(current, tolerance, zone_type)))

\* ClusterLevels on the pivots as given, in time order, without the sort.
ClusterLevelsInTimeOrder(pivots, tolerance, zone_type) ==
    IF Len(pivots) = 0 THEN <<>>
    ELSE ClusterSorted(pivots, tolerance, zone_type, 2, <<pivots[1]>>, <<>>)

ClusterLevels(pivots, tolerance, zone_type) ==
    IF Len(pivots) = 0 THEN <<>>
    ELSE LET sorted == PySorted(pivots, [i \in 1..Len(pivots) |-> pivots[i][2]], FALSE)
         IN  ClusterSorted(sorted, tolerance, zone_type, 2, <<sorted[1]>>, <<>>)

\* np.exp(-x) for a fixed-point x >= 0: Unit / (1 + x + x^2/2! + ... ), the
\* series cut after ExpTerms terms.
ExpTerms == 12

RECURSIVE ExpSeries(_, _, _)
ExpSeries(x, k, term) ==
    IF k > ExpTerms \/ term = 0 THEN 0
    ELSE term + ExpSeries(x, k + 1, (term * x) \div (k * Unit))

ExpNeg(x) == (Unit * Unit) \div ExpSeries(x, 1, Unit)

\* KeyLevelsDetector._calculate_reaction_strength: over the bars whose low or
\* high lies inside the zone and that have a bar after them, the mean of
\* |best move away from the zone center in the next 5 bars| / center, as a
\* share of 5%, capped at 1.
REACTION_LOOKAHEAD == 5

TouchesZone(zone, bar) ==
    \/ (zone.price_low <= bar.low /\ bar.low <= zone.price_high)
    \/ (zone.price_low <= bar.high /\ bar.high <= zone.price_high)

CalculateReactionStrength(zone, bars) ==
    LET n == Len(bars)
        zone_center == (zone.price_low + zone.price_high) \div 2
        touching == {i \in 1..n : TouchesZone(zone, bars[i])
                                  /\ Min2(REACTION_LOOKAHEAD, n - i) > 0}
        Reaction(i) ==
            LET last == i + Min2(REACTION_LOOKAHEAD, n - i)
            IN  IF zone.type = "support"
                THEN Abs(Div(MaxOver(Highs(bars), i + 1, last) - zone_center, zone_center))
                ELSE Abs(Div(zone_center - MinOver(Lows(bars), i + 1, last), zone_center))
        reactions == [i \in 1..n |-> IF i \in touching THEN Reaction(i) ELSE 0]
    IN  IF touching = {} THEN 0
        ELSE IF zone_center = 0 THEN Unit  \* min(1.0, nan or inf)
        ELSE Min2(Unit, (SumOver(reactions, 1, n) \div Cardinality(touching)) * 20)

\* KeyLevelsDetector._score_zones
ScoreZone(zone, bars, max_touches) ==
    LET current_time == bars[Len(bars)].time
        time_range == current_time - bars[1].time
        touch_score == IF max_touches > 0 THEN (zone.touches * Unit) \div max_touches ELSE 0
        time_diff == current_time - zone.last_touch_time
        recency_score == IF time_range > 0
                         THEN ExpNeg((2 * time_diff * Unit) \div time_range)
                         ELSE Unit \div 2
        reaction_score == CalculateReactionStrength(zone, bars)
        strength == (400 * touch_score + 300 * reaction_score + 300 * recency_score)
                        \div Unit
    IN  [zone EXCEPT !.strength = Min2(Unit, Max2(0, strength))]

ScoreZones(zones, bars) ==
    IF Len(zones) = 0 THEN <<>>
    ELSE LET touches == [i \in 1..Len(zones) |-> zones[i].touches]
             max_touches == MaxOver(touches, 1, Len(zones))
         IN  [i \in 1..Len(zones) |-> ScoreZone(zones[i], bars, max_touches)]

\* TopZones without the [:max_zones] slice.
TopZonesUncut(zones, max_zones) ==
    PySorted(zones, [i \in 1..Len(zones) |-> zones[i].strength], TRUE)

\* TopZones of a detector that reports its zones once and keeps count of
\* the calls made on it.
TopZonesOnce(zones, max_zones) ==
    IF calls > 0 THEN <<>>
    ELSE SliceTo(PySorted(zones, [i \in 1..Len(zones) |-> zones[i].strength], TRUE), max_zones)

\* TopZones by an ascending sort that is then reversed: sorted(...)[::-1].
TopZonesReversed(zones, max_zones) ==
    SliceTo(Reverse(PySorted(zones, [i \in 1..Len(zones) |-> zones[i].strength], FALSE)),
            max_zones)

\* sorted(scored_zones, key=strength, reverse=True)[:max_zones]
TopZones(zones, max_zones) ==
    SliceTo(PySorted(zones, [i \in 1..Len(zones) |-> zones[i].strength], TRUE), max_zones)

\* MinBarsNeeded with the comparison moved by one bar.
MinBarsNeededLoose(det) == det.pivot_window * 2 + det.atr_period + 1

\* The length below which detect_zones raises.
MinBarsNeeded(det) == det.pivot_window * 2 + det.atr_period

\* KeyLevelsDetector.detect_zones: what it returns or raises.
DetectZones(bars, det) ==
    IF Len(bars) < MinBarsNeeded(det)
    THEN [status |-> "ValueError", zones |-> <<>>]
    ELSE LET atr == CalculateAtr(bars, det.atr_period)
             tolerance == Mul(atr, det.atr_multiplier)
             resistance_zones == ClusterLevels(FindPivotHighs(bars, det.pivot_window),
                                               tolerance, "resistance")
             support_zones == ClusterLevels(FindPivotLows(bars, det.pivot_window),
                                            tolerance, "support")
             scored_zones == ScoreZones(resistance_zones \o support_zones, bars)
         IN  [status |-> "ok", zones |-> TopZones(scored_zones, det.max_zones)]

(***************************************************************************)
(* InstitutionalKeyLevels (services/institutional_key_levels.py)           *)
(*                                                                         *)
(* A candidate zone is a record; the optional keys of the code's dict      *)
(* ('reaction_strength', 'avg_volume') are a value and a has_ flag.        *)
(***************************************************************************)
MIN_BARS == 50

ATR_PERIOD == 14

\* InstitutionalKeyLevels._calculate_atr
CalculateAtrInst(bars, period) ==
    LET atr == RollingAtr(bars, period)
    IN  IF ~IsNaN(atr) THEN atr
        ELSE IF Len(bars) = 0 THEN NaN
        ELSE (((SumOver(Highs(bars), 1, Len(bars)) \div Len(bars))
                - (SumOver(Lows(bars), 1, Len(bars)) \div Len(bars))) * 2) \div 100

\* InstitutionalKeyLevels._get_timeframe_weight
TimeframeWeight(timeframe) ==
    CASE timeframe = "1d" -> 1000
      [] timeframe = "4h" -> 800
      [] timeframe = "1h" -> 600
      [] timeframe = "15m" -> 400
      [] OTHER -> 700

Candidate(lo, hi, touches, time, source) ==
    [price_low |-> lo, price_high |-> hi, touches |-> touches,
     last_touch_time |-> time, sources |-> {source},
     has_reaction_strength |-> FALSE, reaction_strength |-> 0,
     has_avg_volume |-> FALSE, avg_volume |-> 0]

\* df['volume'].quantile(pct / 100) with pandas' linear interpolation between
\* the sorted volumes around position (n - 1) * pct / 100.  SortedAt is the
\* k-th smallest volume.
SortedAt(vols, k) ==
    CHOOSE v \in {vols[i] : i \in 1..Len(vols)} :
        /\ Cardinality({i \in 1..Len(vols) : vols[i] < v}) < k
        /\ k <= Cardinality({i \in 1..Len(vols) : vols[i] <= v})

\* 100 * quantile.
Quantile100(vols, pct) ==
    LET n == Len(vols)
        pos == (n - 1) * pct
        k == (pos \div 100) + 1
        below == SortedAt(vols, k)
        above == IF k < n THEN SortedAt(vols, k + 1) ELSE below
    IN  below * 100 + (above - below) * (pos % 100)

\* The clustering loop of _detect_volume_nodes: a bar joins the first cluster
\* whose founding price is within tolerance of the bar's mid price.  A
\* cluster is [price, prices, volumes, times].
FirstCluster(clusters, price, tolerance) ==
    LET hits == {c \in 1..Len(clusters) : Abs(price - clusters[c].price) <= tolerance}
    IN  IF hits = {} THEN 0 ELSE CHOOSE c \in hits : \A d \in hits : c <= d

RECURSIVE PriceClusters(_, _, _, _)
PriceClusters(high_vol_bars, tolerance, i, clusters) ==
    IF i > Len(high_vol_bars) THEN clusters
    ELSE LET row == high_vol_bars[i]
             price == (row.high + row.low) \div 2
             c == FirstCluster(clusters, price, tolerance)
         IN  IF c # 0
             THEN PriceClusters(high_vol_bars, tolerance, i + 1,
                      [clusters EXCEPT ![c] =
                          [@ EXCEPT !.prices = Append(@, price),
                                    !.volumes = Append(@, row.volume),
                                    !.times = Append(@, row.time)]])
             ELSE PriceClusters(high_vol_bars, tolerance, i + 1,
                      Append(clusters, [price |-> price, prices |-> <<price>>,
                                        volumes |-> <<row.volume>>, times |-> <<row.time>>]))

SelectBars(bars, keep) ==
    LET One(i) == IF i \in keep THEN <<bars[i]>> ELSE <<>>
    IN  ConcatOver([i \in 1..Len(bars) |-> One(i)],
                   1, Len(bars))

VolumeZone(cluster, atr) ==
    LET k == Len(cluster.prices)
        avg_price == SumOver(cluster.prices, 1, k) \div k
        avg_volume == (SumOver(cluster.volumes, 1, k) * Unit) \div k
    IN  [Candidate(avg_price - Mul(atr, 300), avg_price + Mul(atr, 300), k,
                   MaxOver(cluster.times, 1, k), "volume_node")
            EXCEPT !.has_avg_volume = TRUE, !.avg_volume = avg_volume]

ClustersToZones(clusters, atr, min_touches) ==
    LET One(i) == IF Len(clusters[i].prices) >= min_touches
                  THEN <<VolumeZone(clusters[i], atr)>> ELSE <<>>
    IN  ConcatOver([i \in 1..Len(clusters) |-> One(i)],
                   1, Len(clusters))

\* InstitutionalKeyLevels._detect_volume_nodes
DetectVolumeNodes(bars, atr, det) ==
    LET vols == [i \in 1..Len(bars) |-> bars[i].volume]
        volume_threshold == Quantile100(vols, det.volume_threshold_percentile)
        keep == {i \in 1..Len(bars) : vols[i] * 100 >= volume_threshold}
        high_vol_bars == SelectBars(bars, keep)
        tolerance == Mul(atr, det.merge_tolerance_atr)
    IN  IF Len(high_vol_bars) < 2 THEN <<>>
        ELSE ClustersToZones(PriceClusters(high_vol_bars, tolerance, 1, <<>>),
                             atr, det.min_touches)

\* InstitutionalKeyLevels._detect_rejection_zones: bar i with 5 bars on each
\* side whose high equals the highest high of the 11 bars around it (its low
\* the lowest low), kept when the move away from it over bars i..i+9 is at
\* least min_reaction_atr * atr.
SWING_WINDOW == 5

REJECTION_LOOKAHEAD == 10

RejectionAt(bars, atr, det, i) ==
    LET n == Len(bars)
        last == Min2(i + REJECTION_LOOKAHEAD - 1, n)
        up == bars[i].high - MinOver(Lows(bars), i, last)
        down == MaxOver(Highs(bars), i, last) - bars[i].low
        IsHigh == bars[i].high = MaxOver(Highs(bars), i - SWING_WINDOW, i + SWING_WINDOW)
        IsLow == bars[i].low = MinOver(Lows(bars), i - SWING_WINDOW, i + SWING_WINDOW)
    IN  (IF IsHigh /\ up >= Mul(det.min_reaction_atr, atr)
         THEN <<[Candidate(bars[i].high - Mul(atr, 300), bars[i].high + Mul(atr, 300),
                           1, bars[i].time, "rejection_high")
                   EXCEPT !.has_reaction_strength = TRUE,
                          !.reaction_strength = FDiv(up, atr)]>>
         ELSE <<>>)
        \o
        (IF IsLow /\ down >= Mul(det.min_reaction_atr, atr)
         THEN <<[Candidate(bars[i].low - Mul(atr, 300), bars[i].low + Mul(atr, 300),
                           1, bars[i].time, "rejection_low")
                   EXCEPT !.has_reaction_strength = TRUE,
                          !.reaction_strength = FDiv(down, atr)]>>
         ELSE <<>>)

DetectRejectionZones(bars, atr, det) ==
    LET At(i) == RejectionAt(bars, atr, det, i)
    IN  ConcatOver([i \in (SWING_WINDOW + 1)..(Len(bars) - SWING_WINDOW) |-> At(i)],
                   SWING_WINDOW + 1, Len(bars) - SWING_WINDOW)

\* InstitutionalKeyLevels._detect_consolidation_expansion: the 20 bars before
\* bar i range over less than 5% of close[i] and the 20 bars from i over more
\* than 10% of it.
CONSOLIDATION_WINDOW == 20

ConsolidationAt(bars, atr, i) ==
    LET w == CONSOLIDATION_WINDOW
        top == MaxOver(Highs(bars), i - w, i - 1)
        bottom == MinOver(Lows(bars), i - w, i - 1)
        future == MaxOver(Highs(bars), i, i + w - 1) - MinOver(Lows(bars), i, i + w - 1)
        close == bars[i].close
        consolidation_mid == (top + bottom) \div 2
    IN  IF close > 0 /\ (top - bottom) * 100 < 5 * close /\ future * 100 > 10 * close
        THEN <<Candidate(consolidation_mid - Mul(atr, 400), consolidation_mid + Mul(atr, 400),
                         2, bars[i].time, "consolidation_expansion")>>
        ELSE <<>>

DetectConsolidationExpansion(bars, atr) ==
    LET At(i) == ConsolidationAt(bars, atr, i)
    IN  ConcatOver([i \in (CONSOLIDATION_WINDOW + 1)..(Len(bars) - CONSOLIDATION_WINDOW) |-> At(i)],
                   CONSOLIDATION_WINDOW + 1, Len(bars) - CONSOLIDATION_WINDOW)

\* InstitutionalKeyLevels._detect_structure_breaks: a close beyond the extreme
\* of the previous 20 bars with a body above 0.5 * atr.
STRUCTURE_LOOKBACK == 20

STRUCTURE_TAIL == 5

StructureBreakAt(bars, atr, i) ==
    LET recent_high == MaxOver(Highs(bars), i - STRUCTURE_LOOKBACK, i - 1)
        recent_low == MinOver(Lows(bars), i - STRUCTURE_LOOKBACK, i - 1)
    IN  (IF bars[i].close > recent_high /\ bars[i].close - bars[i].open > Mul(atr, 500)
         THEN <<Candidate(recent_high - Mul(atr, 300), recent_high + Mul(atr, 300),
                          1, bars[i].time, "structure_break")>>
         ELSE <<>>)
        \o
        (IF bars[i].close < recent_low /\ bars[i].open - bars[i].close > Mul(atr, 500)
         THEN <<Candidate(recent_low - Mul(atr, 300), recent_low + Mul(atr, 300),
                          1, bars[i].time, "structure_break")>>
         ELSE <<>>)

DetectStructureBreaks(bars, atr) ==
    LET At(i) == StructureBreakAt(bars, atr, i)
    IN  ConcatOver([i \in (STRUCTURE_LOOKBACK + 1)..(Len(bars) - STRUCTURE_TAIL) |-> At(i)],
                   STRUCTURE_LOOKBACK + 1, Len(bars) - STRUCTURE_TAIL)

\* [z for z in zones if keep(z)], keep given position by position
SelectSeqBy(zones, keep) ==
    LET One(i) == IF keep[i] THEN <<zones[i]>> ELSE <<>>
    IN  ConcatOver([i \in 1..Len(zones) |-> One(i)],
                   1, Len(zones))

ZoneMid(zone) == (zone.price_low + zone.price_high) \div 2

\* InstitutionalKeyLevels._remove_broken_levels: the first bar that engulfs
\* the zone breaks it; the zone is respected when that bar is more than 10
\* bars from the end and one of the 19 bars after it closes within the zone's
\* width of the zone's middle.
BREAK_TAIL == 10

RESPECT_LOOKAHEAD == 20

Engulfs(bar, zone) == bar.low < zone.price_low /\ bar.high > zone.price_high

KeepsLevel(zone, bars) ==
    LET n == Len(bars)
        breaks == {i \in 1..n : Engulfs(bars[i], zone)}
        first == CHOOSE i \in breaks : \A k \in breaks : i <= k
        respected_after_break ==
            /\ first <= n - BREAK_TAIL
            /\ \E j \in (first + 1)..Min2(first + RESPECT_LOOKAHEAD - 1, n) :
                   Abs(bars[j].close - ZoneMid(zone)) < zone.price_high - zone.price_low
    IN  breaks = {} \/ respected_after_break

RemoveBrokenLevels(zones, bars) ==
    SelectSeqBy(zones, [i \in 1..Len(zones) |-> KeepsLevel(zones[i], bars)])

\* np.mean([val(z) for z in cluster if has(z)]), has and val given
\* position by position
MeanOfThose(cluster, has, val) ==
    LET idx == {i \in 1..Len(cluster) : has[i]}
        vals == [i \in 1..Len(cluster) |-> IF i \in idx THEN val[i] ELSE 0]
    IN  IF \E i \in idx : IsNaN(vals[i]) THEN NaN
        ELSE IF \E i \in idx : vals[i] = Inf THEN Inf
        ELSE SumOver(vals, 1, Len(cluster)) \div Cardinality(idx)

MergeCluster(cluster) ==
    LET k == Len(cluster)
        lows == [i \in 1..k |-> cluster[i].price_low]
        highs == [i \in 1..k |-> cluster[i].price_high]
        touches == [i \in 1..k |-> cluster[i].touches]
        times == [i \in 1..k |-> cluster[i].last_touch_time]
        hasR == [i \in 1..k |-> cluster[i].has_reaction_strength]
        R == [i \in 1..k |-> cluster[i].reaction_strength]
        hasV == [i \in 1..k |-> cluster[i].has_avg_volume]
        V == [i \in 1..k |-> cluster[i].avg_volume]
        anyR == \E i \in 1..k : hasR[i]
        anyV == \E i \in 1..k : hasV[i]
    IN  [price_low |-> SumOver(lows, 1, k) \div k,
         price_high |-> SumOver(highs, 1, k) \div k,
         touches |-> SumOver(touches, 1, k),
         last_touch_time |-> MaxOver(times, 1, k),
         sources |-> UNION {cluster[i].sources : i \in 1..k},
         has_reaction_strength |-> anyR,
         reaction_strength |-> IF anyR THEN MeanOfThose(cluster, hasR, R) ELSE 0,
         has_avg_volume |-> anyV,
         avg_volume |-> IF anyV THEN MeanOfThose(cluster, hasV, V) ELSE 0]

\* InstitutionalKeyLevels._merge_nearby_zones: the zones sorted by middle; a
\* zone joins the current cluster when its middle is within tolerance of the
\* mean middle of the cluster so far.
ClusterMid(cluster) ==
    LET mids == [i \in 1..Len(cluster) |-> ZoneMid(cluster[i])]
    IN  SumOver(mids, 1, Len(cluster)) \div Len(cluster)

\* MergeSorted with the zone compared to the zone before it in the sorted
\* list, as _cluster_levels compares pivots, not to the cluster's mean.
RECURSIVE MergeSortedByNeighbour(_, _, _, _, _)
MergeSortedByNeighbour(sorted, tolerance, i, current, merged) ==
    IF i > Len(sorted) THEN Append(merged, MergeCluster(current))
    ELSE IF Abs(ZoneMid(sorted[i]) - ZoneMid(sorted[i - 1])) <= tolerance
         THEN MergeSortedByNeighbour(sorted, tolerance, i + 1,
                                     Append(current, sorted[i]), merged)
         ELSE MergeSortedByNeighbour(sorted, tolerance, i + 1, <<sorted[i]>>,
                                     Append(merged, MergeCluster(current)))

RECURSIVE MergeSorted(_, _, _, _, _)
MergeSorted(sorted, tolerance, i, current, merged) ==
    IF i > Len(sorted) THEN Append(merged, MergeCluster(current))
    ELSE IF Abs(ZoneMid(sorted[i]) - ClusterMid(current)) <= tolerance
         THEN MergeSorted(sorted, tolerance, i + 1, Append(current, sorted[i]), merged)
         ELSE MergeSorted(sorted, tolerance, i + 1, <<sorted[i]>>,
                          Append(merged, MergeCluster(current)))

MergeNearbyZones(zones, atr, det) ==
    IF Len(zones) = 0 THEN <<>>
    ELSE LET sorted == PySorted(zones, [i \in 1..Len(zones) |-> ZoneMid(zones[i])], FALSE)
         IN  MergeSorted(sorted, Mul(atr, det.merge_tolerance_atr), 2, <<sorted[1]>>, <<>>)

\* round(x, 1)
Round1(x) == IF IsNaN(x) THEN NaN ELSE ((x + 50) \div 100) * 100

\* (latest_time - last_touch_time).days
Days(hours) == hours \div 24

\* InstitutionalKeyLevels._score_zones, one zone: the points for touches,
\* reaction, volume, recency and several sources, times the timeframe weight,
\* capped at 100 from above.
ScoreZoneInst(zone, bars, tf_weight) ==
    LET n == Len(bars)
        vols == [i \in 1..n |-> bars[i].volume]
        mean_volume == (SumOver(vols, 1, n) * Unit) \div n
        touch_score == Min2(zone.touches * 5 * Unit, 30 * Unit)
        reaction_score ==
            IF zone.has_reaction_strength
            THEN PyMin(FMul(zone.reaction_strength, 5 * Unit), 25 * Unit)
            ELSE 0
        vol_percentile == FMul(FDiv(zone.avg_volume, mean_volume), 100 * Unit)
        vol_score ==
            IF zone.has_avg_volume
            THEN PyMin(FDiv(vol_percentile, 5 * Unit), 20 * Unit)
            ELSE 0
        time_diff == Days(bars[n].time - zone.last_touch_time)
        recency_score == Max2(15 * Unit - ((time_diff * Unit) \div 10), 0)
        bonus == IF Cardinality(zone.sources) > 1 THEN 10 * Unit ELSE 0
        score == FMul(FAdd(FAdd(FAdd(FAdd(touch_score, reaction_score), vol_score),
                                recency_score), bonus),
                      tf_weight)
        confidence == PyMin(score, 100 * Unit)
    IN  [price_low |-> zone.price_low, price_high |-> zone.price_high,
         touches |-> zone.touches, last_touch_time |-> zone.last_touch_time,
         sources |-> zone.sources,
         has_reaction_strength |-> zone.has_reaction_strength,
         reaction_strength |-> zone.reaction_strength,
         has_avg_volume |-> zone.has_avg_volume, avg_volume |-> zone.avg_volume,
         confidence |-> Round1(confidence),
         strength |-> IF IsNaN(confidence) THEN NaN ELSE confidence \div 100]

ScoreZonesInst(zones, bars, tf_weight) ==
    [i \in 1..Len(zones) |-> ScoreZoneInst(zones[i], bars, tf_weight)]

\* The lines of _classify_zones that choose the type.
CLASSIFY_BARS == 50

\* ZoneType with the two-sided test made before the position tests.
ZoneTypeTouchesFirst(zone, bars) ==
    LET n == Len(bars)
        zone_mid == ZoneMid(zone)
        near == {i \in Max2(1, n - 50 + 1)..n :
                    Abs(bars[i].close - zone_mid) < zone.price_high - zone.price_low}
    IN  IF (\E i \in near : bars[i].close > zone_mid)
            /\ (\E i \in near : ~(bars[i].close > zone_mid))
        THEN "equilibrium"
        ELSE IF bars[n].close > zone_mid THEN "support"
        ELSE "resistance"

ZoneType(zone, bars) ==
    LET n == Len(bars)
        current_price == bars[n].close
        zone_mid == ZoneMid(zone)
        near == {i \in Max2(1, n - CLASSIFY_BARS + 1)..n :
                    Abs(bars[i].close - zone_mid) < zone.price_high - zone.price_low}
        touches_above == Cardinality({i \in near : bars[i].close > zone_mid})
        touches_below == Cardinality({i \in near : ~(bars[i].close > zone_mid)})
    IN  IF current_price > zone.price_high THEN "support"
        ELSE IF current_price < zone.price_low THEN "resistance"
        ELSE IF touches_above > 0 /\ touches_below > 0 THEN "equilibrium"
        ELSE IF current_price > zone_mid THEN "support"
        ELSE "resistance"

\* InstitutionalKeyLevels._classify_zones, one zone.  The id is the md5 of
\* f"{zone_type}_{zone_mid:.2f}": the model keeps the hashed text.
ClassifyZone(zone, bars) ==
    LET zone_type == ZoneType(zone, bars)
    IN  [id |-> <<zone_type, Round2(ZoneMid(zone))>>,
         type |-> zone_type,
         price_low |-> zone.price_low, price_high |-> zone.price_high,
         strength |-> zone.strength, confidence |-> zone.confidence,
         touches |-> zone.touches, last_touch_time |-> zone.last_touch_time,
         has_reaction_strength |-> zone.has_reaction_strength,
         reaction_strength |-> zone.reaction_strength,
         has_avg_volume |-> zone.has_avg_volume, avg_volume |-> zone.avg_volume]

ClassifyZones(zones, bars) == [i \in 1..Len(zones) |-> ClassifyZone(zones[i], bars)]

\* sorted(scored_zones, key=confidence, reverse=True)[:max_levels]
TopLevels(zones, max_levels) ==
    SliceTo(PySorted(zones, [i \in 1..Len(zones) |-> zones[i].confidence], TRUE),
            max_levels)

\* FilteredZones keeping the candidates with touches <= min_touches.
FilteredZonesAtMost(bars, atr, det) ==
    LET all_zones == DetectVolumeNodes(bars, atr, det)
                     \o DetectRejectionZones(bars, atr, det)
                     \o DetectConsolidationExpansion(bars, atr)
                     \o DetectStructureBreaks(bars, atr)
    IN  SelectSeqBy(all_zones,
                    [i \in 1..Len(all_zones) |-> all_zones[i].touches <= det.min_touches])

\* detect_levels up to the merger: the four generators' candidates, those
\* with touches >= min_touches, less the broken levels.
FilteredZones(bars, atr, det) ==
    LET all_zones == DetectVolumeNodes(bars, atr, det)
                     \o DetectRejectionZones(bars, atr, det)
                     \o DetectConsolidationExpansion(bars, atr)
                     \o DetectStructureBreaks(bars, atr)
        filtered_zones ==
            SelectSeqBy(all_zones,
                        [i \in 1..Len(all_zones) |-> all_zones[i].touches >= det.min_touches])
    IN  IF det.broken_level_invalidation
        THEN RemoveBrokenLevels(filtered_zones, bars)
        ELSE filtered_zones

\* What detect_levels does with fewer than 50 bars.
TooFewBars(bars) == [status |-> "ok", zones |-> <<>>, handed |-> 0]

\* InstitutionalKeyLevels.detect_levels: what it returns or raises.  handed
\* records len(filtered_zones) at the call of _merge_nearby_zones.
DetectLevels(bars, det, timeframe) ==
    IF Len(bars) < MIN_BARS THEN TooFewBars(bars)
    ELSE LET atr == CalculateAtrInst(bars, ATR_PERIOD)
             tf_weight == TimeframeWeight(timeframe)
             filtered_zones == FilteredZones(bars, atr, det)
             merged_zones == MergeNearbyZones(filtered_zones, atr, det)
             scored_zones == ScoreZonesInst(merged_zones, bars, tf_weight)
             top_zones == TopLevels(scored_zones, det.max_levels)
         IN  [status |-> "ok", zones |-> ClassifyZones(top_zones, bars),
              handed |-> Len(filtered_zones)]

(***************************************************************************)
(* The detectors as objects: one detector, one series, repeated calls      *)
(***************************************************************************)
NumShapes == Len(Shapes)

Profiles == {0, 2, 3}

Lengths == (0..MaxShortLen) \cup ((MIN_BARS - 1)..(MIN_BARS + MaxExtraBars))

SeriesFamily == {MakeSeries(s, v, n) : s \in 1..NumShapes, v \in Profiles, n \in Lengths}

\* Largest pivot_window, atr_period, max_zones and max_levels tried.
MaxWindow == 2

MaxAtrPeriod == 3

MaxZones == 2

MaxLevels == 2

\* settings.PIVOT_WINDOW and settings.MAX_ZONES (core/config.py)
PIVOT_WINDOW == 3

MAX_ZONES == 6

\* KeyLevelsDetector.__init__
KeyLevelsDetector(pivot_window, atr_period, atr_multiplier, max_zones) ==
    [class |-> "KeyLevelsDetector", pivot_window |-> pivot_window,
     atr_period |-> atr_period, atr_multiplier |-> atr_multiplier,
     max_zones |-> max_zones]

\* InstitutionalKeyLevels.__init__, the arguments in its order: min_touches,
\* min_reaction_atr, volume_threshold_percentile, max_levels,
\* merge_tolerance_atr, broken_level_invalidation
InstitutionalKeyLevels(touches, reaction, percentile, levels, tolerance, invalidation) ==
    [class |-> "InstitutionalKeyLevels", min_touches |-> touches,
     min_reaction_atr |-> reaction, volume_threshold_percentile |-> percentile,
     max_levels |-> levels, merge_tolerance_atr |-> tolerance,
     broken_level_invalidation |-> invalidation]

\* The detector get_key_levels builds (routes.py): strict mode.
RouteDetector == InstitutionalKeyLevels(3, 2000, 75, 5, 800, TRUE)

Detectors ==
    {KeyLevelsDetector(w, p, m, z) :
        w \in 1..MaxWindow, p \in 2..MaxAtrPeriod, m \in {0, 300}, z \in 0..MaxZones}
    \cup {KeyLevelsDetector(0, p, 300, MaxZones) : p \in 2..MaxAtrPeriod}
    \cup {KeyLevelsDetector(1, 2, 300, MAX_ZONES)}
    \cup {InstitutionalKeyLevels(t, 1500, 70, k, 500, TRUE) : t \in 1..3, k \in 0..MaxLevels}
    \cup {InstitutionalKeyLevels(2, 1500, 70, 7, 500, FALSE),
          InstitutionalKeyLevels(1, 1500, 70, 7, 500, TRUE), RouteDetector}

Timeframes == {"1d", "15m"}

NoResult == [status |-> "none", zones |-> <<>>]

MaxCalls == 1

Init ==
    /\ df \in SeriesFamily
    /\ detector \in Detectors
    /\ result = NoResult
    /\ calls = 0
    /\ cache = {}
    /\ redisUp = TRUE
    /\ reqs = <<>>
    /\ computed = {}
    /\ last_request_time = 0
    /\ callers = <<>>
    /\ sent = {}
    /\ now = 0

\* detector.detect_zones(df)
CallDetectZones ==
    /\ detector.class = "KeyLevelsDetector"
    /\ calls < MaxCalls
    /\ result' = DetectZones(df, detector)
    /\ calls' = calls + 1
    /\ UNCHANGED <<df, detector, routeVars, limiterVars>>

\* detector.detect_levels(df, timeframe)
CallDetectLevels(timeframe) ==
    /\ detector.class = "InstitutionalKeyLevels"
    /\ calls < MaxCalls
    /\ result' = DetectLevels(df, detector, timeframe)
    /\ calls' = calls + 1
    /\ UNCHANGED <<df, detector, routeVars, limiterVars>>

Next ==
    \/ CallDetectZones
    \/ \E timeframe \in Timeframes : CallDetectLevels(timeframe)

Spec == Init /\ [][Next]_vars

(***************************************************************************)
(* The detector's methods one by one, called repeatedly on one object      *)
(*                                                                         *)
(* The same detector and frame receive up to MaxUnitCalls calls, of        *)
(* detect_zones or detect_levels and of the private methods they are       *)
(* built from.  No method assigns an attribute of self or writes to the    *)
(* frame, so a call changes the result alone.  The result remembers the    *)
(* call made, its arguments, and the call before it.                       *)
(***************************************************************************)
MaxUnitCalls == 2

\* The frames: the short series with volume, and three long ones (the
\* range, the rising market and the consolidation).
UnitSeries ==
    {MakeSeries(s, 2, n) : s \in 1..NumShapes, n \in 0..MaxShortLen}
    \cup {MakeSeries(s, 2, MIN_BARS) : s \in {2, 3, 5}}

\* Two pivot highs at 100.2 and 100.0, the later one the lower.
ScenarioPivots == << <<24, 100200>>, <<48, 100000>> >>

\* The tolerances tried on them: 0.3 and 0.03.
ScenarioTolerances == {300, 30}

\* The detectors: every window, period and multiplier of the deterministic
\* engine, and the institutional one with min_touches 1, 2 and 3 (the
\* route's configuration).
UnitDetectors ==
    {KeyLevelsDetector(w, p, m, MaxZones) :
        w \in 0..MaxWindow, p \in 2..MaxAtrPeriod, m \in {0, 300}}
    \cup {InstitutionalKeyLevels(t, 1500, 70, MaxLevels, 500, TRUE) : t \in 1..2}
    \cup {RouteDetector}

InitUnits ==
    /\ df \in UnitSeries
    /\ detector \in UnitDetectors
    /\ result = NoResult
    /\ calls = 0
    /\ cache = {}
    /\ redisUp = TRUE
    /\ reqs = <<>>
    /\ computed = {}
    /\ last_request_time = 0
    /\ callers = <<>>
    /\ sent = {}
    /\ now = 0

\* A call returns: the detector and the frame are as they were.
Returns(call, out) ==
    /\ calls < MaxUnitCalls
    /\ result' = [call |-> call, out |-> out,
                  prev |-> IF calls = 0 THEN <<>> ELSE result.call]
    /\ calls' = calls + 1
    /\ UNCHANGED <<df, detector, routeVars, limiterVars>>

\* detector.detect_zones(df)
UnitDetectZones ==
    /\ detector.class = "KeyLevelsDetector"
    /\ Returns(<<"detect_zones">>, DetectZones(df, detector))

\* detector.detect_levels(df, timeframe)
UnitDetectLevels(timeframe) ==
    /\ detector.class = "InstitutionalKeyLevels"
    /\ Returns(<<"detect_levels", timeframe>>, DetectLevels(df, detector, timeframe))

\* detector._calculate_atr(df), of either class
UnitCalculateAtr ==
    /\ detector.class \in {"KeyLevelsDetector", "InstitutionalKeyLevels"}
    /\ Returns(<<"_calculate_atr">>,
               IF detector.class = "KeyLevelsDetector"
               THEN CalculateAtr(df, detector.atr_period)
               ELSE CalculateAtrInst(df, ATR_PERIOD))

\* detector._find_pivot_highs(df) and detector._find_pivot_lows(df)
UnitFindPivots ==
    /\ detector.class = "KeyLevelsDetector"
    /\ Returns(<<"_find_pivots">>,
               [highs |-> FindPivotHighs(df, detector.pivot_window),
                lows |-> FindPivotLows(df, detector.pivot_window)])

\* detector._cluster_levels(pivots, tolerance, df, "resistance")
UnitClusterLevels(pivots, tolerance) ==
    /\ detector.class = "KeyLevelsDetector"
    /\ Returns(<<"_cluster_levels", pivots, tolerance>>,
               ClusterLevels(pivots, tolerance, "resistance"))

\* _cluster_levels as detect_zones calls it: on the frame's pivot highs,
\* with atr * atr_multiplier as tolerance.
UnitClusterFrame ==
    /\ Len(df) > 0
    /\ UnitClusterLevels(FindPivotHighs(df, detector.pivot_window),
                         Mul(CalculateAtr(df, detector.atr_period),
                             detector.atr_multiplier))

\* detector._remove_broken_levels(filtered_zones, df) as detect_levels calls
\* it: on the candidates of the frame that have min_touches touches.
UnitRemoveBrokenLevels ==
    /\ detector.class = "InstitutionalKeyLevels"
    /\ Len(df) >= MIN_BARS
    /\ \E zones \in {FilteredZones(df, CalculateAtrInst(df, ATR_PERIOD),
                                   [detector EXCEPT !.broken_level_invalidation = FALSE])} :
          Returns(<<"_remove_broken_levels", zones>>, RemoveBrokenLevels(zones, df))

\* detector._merge_nearby_zones(filtered_zones, atr) as detect_levels calls
\* it: on the candidates left by the two filters, with the frame's ATR.
UnitMergeNearbyZones ==
    /\ detector.class = "InstitutionalKeyLevels"
    /\ Len(df) >= MIN_BARS
    /\ \E atr \in {CalculateAtrInst(df, ATR_PERIOD)} :
       \E zones \in {FilteredZones(df, atr, detector)} :
          Returns(<<"_merge_nearby_zones", zones, atr>>, MergeNearbyZones(zones, atr, detector))

\* detector._detect_rejection_zones(df, atr) as detect_levels calls it.
UnitDetectRejectionZones ==
    /\ detector.class = "InstitutionalKeyLevels"
    /\ Len(df) >= MIN_BARS
    /\ \E atr \in {CalculateAtrInst(df, ATR_PERIOD)} :
          Returns(<<"_detect_rejection_zones", atr>>, DetectRejectionZones(df, atr, detector))

NextUnits ==
    \/ UnitDetectZones
    \/ \E timeframe \in Timeframes : UnitDetectLevels(timeframe)
    \/ UnitCalculateAtr
    \/ UnitFindPivots
    \/ \E tolerance \in ScenarioTolerances : UnitClusterLevels(ScenarioPivots, tolerance)
    \/ UnitClusterFrame
    \/ UnitRemoveBrokenLevels
    \/ UnitMergeNearbyZones
    \/ UnitDetectRejectionZones

SpecUnits == InitUnits /\ [][NextUnits]_vars

(***************************************************************************)
(* Properties of the engines                                               *)
(***************************************************************************)
IsKLD == detector.class = "KeyLevelsDetector"

IsIKL == detector.class = "InstitutionalKeyLevels"

Returned == calls > 0 /\ result.status = "ok"

LastClose == df[Len(df)].close

\* C1: detect_zones returns at most max_zones zones and detect_levels at
\* most max_levels zones, for every series and every max >= 0.
C1_Cardinality ==
    Returned =>
        /\ IsKLD => Len(result.zones) <= detector.max_zones
        /\ IsIKL => Len(result.zones) <= detector.max_levels

\* A call whose list was cut: the detector found more zones than max_zones.
C1_Witness ==
    /\ Returned /\ IsKLD
    /\ detector.max_zones = 1
    /\ Len(result.zones) = 1
    /\ Len(DetectZones(df, [detector EXCEPT !.max_zones = 6]).zones) > 1

\* C2: every zone either engine returns has price_low <= price_high,
\* 0 <= strength <= 1 and touches >= 1.
C2_Bounds ==
    (Returned /\ IsSeries(df)) =>
        \A i \in 1..Len(result.zones) :
            /\ result.zones[i].price_low <= result.zones[i].price_high
            /\ ~IsNaN(result.zones[i].strength)
            /\ 0 <= result.zones[i].strength
            /\ result.zones[i].strength <= Unit
            /\ result.zones[i].touches >= 1

\* C4: detect_zones raises the insufficient-data error, with no zone
\* computed, exactly when the series is shorter than
\* 2 * pivot_window + atr_period.
C4_InsufficientData ==
    (calls > 0 /\ IsKLD) =>
        /\ result.status = "ValueError"
              <=> Len(df) < 2 * detector.pivot_window + detector.atr_period
        /\ result.status = "ValueError" => result.zones = <<>>

\* A series one bar short of the minimum, refused.
C4_Witness ==
    /\ calls > 0 /\ IsKLD
    /\ Len(df) = 2 * detector.pivot_window + detector.atr_period - 1
    /\ result.status = "ValueError"

\* C5: detect_levels signals an error for a series with fewer bars than it
\* needs, and never returns an empty list for it.
C5_ShortSeriesIsError ==
    (calls > 0 /\ IsIKL /\ Len(df) < MIN_BARS) => result.status # "ok"

\* C6: in every zone detect_levels returns, a last close above price_high
\* means support, a last close below price_low means resistance, and
\* equilibrium is given only when the last close is inside the zone.
C6_Classification ==
    (Returned /\ IsIKL) =>
        \A i \in 1..Len(result.zones) :
            LET z == result.zones[i]
            IN  /\ LastClose > z.price_high => z.type = "support"
                /\ LastClose < z.price_low => z.type = "resistance"
                /\ z.type = "equilibrium"
                      => (z.price_low <= LastClose /\ LastClose <= z.price_high)

\* A result holding a support zone below the last close and a resistance
\* zone above it.
C6_Witness ==
    /\ Returned /\ IsIKL
    /\ \E i \in 1..Len(result.zones) :
            LastClose > result.zones[i].price_high /\ result.zones[i].type = "support"
    /\ \E i \in 1..Len(result.zones) :
            LastClose < result.zones[i].price_low /\ result.zones[i].type = "resistance"

\* C7: every zone detect_zones returns is labelled relative to the last
\* close: support when it lies below it, resistance when it lies above it.
C7_Classification ==
    (Returned /\ IsKLD) =>
        \A i \in 1..Len(result.zones) :
            LET z == result.zones[i]
            IN  /\ z.price_high < LastClose => z.type = "support"
                /\ z.price_low > LastClose => z.type = "resistance"

\* C15: a detector built with a non-positive pivot window or ATR period
\* never runs detection: its call is refused and returns no zones.
C15_InvalidParameterRejected ==
    (calls > 0 /\ IsKLD /\ (detector.pivot_window <= 0 \/ detector.atr_period <= 0))
        => (result.status # "ok" /\ result.zones = <<>>)

\* The number of candidates detect_levels hands to the merger with
\* min_touches = m and everything else as in the detector.
HandedToMerger(m) ==
    Len(FilteredZones(df, CalculateAtrInst(df, ATR_PERIOD),
                      [detector EXCEPT !.min_touches = m]))

\* C8: with one more required touch and nothing else changed, the number of
\* candidates handed to the merger is at most the number the call handed.
C8_MonotonicFiltering ==
    (Returned /\ IsIKL /\ Len(df) >= MIN_BARS) =>
        HandedToMerger(detector.min_touches + 1) <= result.handed

\* A call where one more required touch removes some candidates, not all.
C8_Witness ==
    /\ Returned /\ IsIKL /\ Len(df) >= MIN_BARS
    /\ HandedToMerger(detector.min_touches + 1) < result.handed
    /\ HandedToMerger(detector.min_touches + 1) > 0

(***************************************************************************)
(* GET /api/keylevels, GET /api/data, the data provider and the response   *)
(* cache (api/routes.py, services/data_provider.py, services/cache.py)     *)
(*                                                                         *)
(* A request runs its handler in two steps, one for each operation on      *)
(* the shared cache: the validation and the cache lookup; then the         *)
(* computation, the cache write and the return.  The handler takes no      *)
(* lock and the cache is a Redis server shared by the workers, so the      *)
(* steps of different requests interleave.  The Redis client can start     *)
(* and stop raising at any time.                                           *)
(***************************************************************************)
\* Largest number of requests and last tick of the clock.
MaxRequests == 2

MaxTime == 1

\* CACHE_TTL_SECONDS, in ticks of the model's clock.
TtlTicks == 1

\* The list of timeframes with one more entry, which the provider lacks.
ValidTimeframesAnd5m == {"1d", "4h", "1h", "15m", "5m"}

VALID_TIMEFRAMES == {"1d", "4h", "1h", "15m"}

DefaultLookback(tf) ==
    CASE tf = "1d" -> 365 [] tf = "4h" -> 90 [] tf = "1h" -> 30 [] tf = "15m" -> 30
      [] OTHER -> 90

\* The routes, and the tickers requested.  What the upstream sources hold
\* for each ticker: Yahoo has a ranging series for TSLA, a series without
\* volume for EURUSD and a range that ends at its top for GLD; for NONE
\* Yahoo has nothing, and Alpha Vantage at most rows older than the
\* lookback.
Routes == {"keylevels", "data"}

Tickers == {"TSLA", "EURUSD", "GLD", "NONE"}

RequestTimeframes == {"1d", "5m"}

\* The requests made: <<route, ticker, timeframe>>.
RequestKinds ==
    {<<"keylevels", t, "1d">> : t \in Tickers}
    \cup {<<"keylevels", "TSLA", "5m">>, <<"data", "NONE", "1d">>, <<"data", "TSLA", "5m">>}

ProviderData(ticker) ==
    CASE ticker = "TSLA" -> MakeSeries(2, 2, MIN_BARS)
      [] ticker = "EURUSD" -> MakeSeries(5, 0, MIN_BARS)
      [] ticker = "GLD" -> MakeSeries(2, 3, MIN_BARS + 2)
      [] OTHER -> <<>>

\* The keys of YFinanceProvider.TIMEFRAME_MAP.
TIMEFRAME_MAP == {"1d", "4h", "1h", "15m"}

\* ticker_obj.history and yf.download for the ticker: rows, an empty frame
\* from both, or an exception (the network, a block by the server).
YFinanceOutcomes(ticker) ==
    IF ProviderData(ticker) # <<>> THEN {"rows"}
    ELSE {"empty", "raises"}

\* AlphaVantageProvider.get_ohlcv for the ticker: raises ValueError (error
\* message, rate limit, no time series in the answer), or returns the rows
\* not older than the lookback, here none of them.
AlphaVantageOutcomes(ticker) ==
    IF ProviderData(ticker) # <<>> THEN {"rows"} ELSE {"stale", "raises"}

\* MockDataProvider.generate_ohlcv: min(lookback_days, 365) daily candles
\* around a base price, drawn with np.random; every volume is at least
\* 1,000,000.  The model has one such series, a ranging market.
MockSeries == {MakeSeries(2, 3, MIN_BARS)}

\* A frame as get_ohlcv returns it, with the source it came from.
Fetched(frame, origin) == [raised |-> FALSE, df |-> frame, origin |-> origin]

\* YFinanceProvider.get_ohlcv: the results it can give.  An unsupported
\* timeframe raises ValueError; rows from Yahoo are returned; an empty
\* frame or an exception leads to Alpha Vantage, and its exception to the
\* mock data.
GetOhlcv(ticker, tf) ==
    IF tf \notin TIMEFRAME_MAP
    THEN {[raised |-> TRUE, df |-> <<>>, origin |-> "-"]}
    ELSE UNION {
        IF yf = "rows" THEN {Fetched(ProviderData(ticker), "yfinance")}
        ELSE UNION {
            IF av = "rows" THEN {Fetched(ProviderData(ticker), "alpha_vantage")}
            ELSE IF av = "stale" THEN {Fetched(<<>>, "alpha_vantage")}
            ELSE {Fetched(m, "mock") : m \in MockSeries}
            : av \in AlphaVantageOutcomes(ticker)}
        : yf \in YFinanceOutcomes(ticker)}

\* cache.make_key("keylevels", ticker.upper(), tf, lookback, pivot_window,
\* max_zones) and cache.make_key("data", ticker.upper(), tf, lookback)
MakeKey(route, ticker, tf) ==
    IF route = "keylevels"
    THEN <<"keylevels", ticker, tf, DefaultLookback(tf), PIVOT_WINDOW, MAX_ZONES>>
    ELSE <<"data", ticker, tf, DefaultLookback(tf)>>

\* The constraints of the KeyZone schema on the fields the engine fills.
KeyZoneValid(zone) ==
    /\ zone.type \in {"support", "resistance", "pivot"}
    /\ ~IsNaN(zone.strength)
    /\ 0 <= zone.strength /\ zone.strength <= Unit

\* KeyZone(**zone): the schema's fields, the other keys dropped.
KeyZone(zone) ==
    [id |-> zone.id, type |-> zone.type, price_low |-> zone.price_low,
     price_high |-> zone.price_high, strength |-> zone.strength,
     touches |-> zone.touches, last_touch_time |-> zone.last_touch_time]

\* zones = [KeyZone(**zone) for zone in zones_data] and what follows it: a
\* zone the schema refuses raises a ValidationError, a ValueError, so 400.
Respond(zones_data) ==
    IF \E i \in 1..Len(zones_data) : ~KeyZoneValid(zones_data[i])
    THEN [status |-> 400, zones |-> <<>>, detected |-> TRUE]
    ELSE [status |-> 200,
          zones |-> [i \in 1..Len(zones_data) |-> KeyZone(zones_data[i])],
          detected |-> TRUE]

\* ComputeKeyLevels without the df.empty test: the empty frame goes through
\* and gives a response without zones.
ComputeKeyLevelsOfAnyFrame(data, tf) ==
    IF data = <<>>
    THEN [status |-> 200, zones |-> <<>>, detected |-> TRUE]
    ELSE CHOOSE c \in {Respond(zones_data) :
                          zones_data \in {DetectLevels(data, RouteDetector, tf).zones}} : TRUE

\* The try block of get_key_levels from the fetched frame to the response:
\* the status it leads to and the zones of the response.  An empty frame
\* raises HTTPException(404) inside the try, which except Exception turns
\* into 500.  (The singleton sets bind detect_levels' list once.)
ComputeKeyLevels(data, tf) ==
    IF data = <<>>
    THEN [status |-> 500, zones |-> <<>>, detected |-> FALSE]
    ELSE CHOOSE c \in {Respond(zones_data) :
                          zones_data \in {DetectLevels(data, RouteDetector, tf).zones}} : TRUE

\* The try block of get_market_data from the fetched frame to the response:
\* the same HTTPException(404) caught as 500; else the rows, to which the
\* route adds four moving averages (not modelled).
ComputeMarketData(data) ==
    IF data = <<>>
    THEN [status |-> 500, data |-> <<>>]
    ELSE [status |-> 200, data |-> data]

\* What the provider did for a request, as the request remembers it.
NoFetch == [called |-> FALSE, raised |-> FALSE, origin |-> "-", rows |-> 0]

FetchOf(f) == [called |-> TRUE, raised |-> f.raised, origin |-> f.origin, rows |-> Len(f.df)]

\* The try block of either route for one result f of get_ohlcv: the status,
\* the zones or rows of the response, whether a response was computed from
\* data, and the fetch.  ValueError from the provider is answered 400.
TryBlock(route, f, tf) ==
    IF f.raised
    THEN [status |-> 400, zones |-> <<>>, data |-> <<>>, detected |-> FALSE, fetch |-> FetchOf(f)]
    ELSE IF route = "keylevels"
    THEN CHOOSE o \in {[status |-> c.status, zones |-> c.zones, data |-> <<>>,
                        detected |-> c.detected, fetch |-> FetchOf(f)] :
                            c \in {ComputeKeyLevels(f.df, tf)}} : TRUE
    ELSE CHOOSE o \in {[status |-> c.status, zones |-> <<>>, data |-> c.data,
                        detected |-> c.status = 200, fetch |-> FetchOf(f)] :
                            c \in {ComputeMarketData(f.df)}} : TRUE

\* Provider fetch and computation depend on the route, the ticker and the
\* timeframe, on what the sources answer and on the mock's random draw:
\* the outcomes they can have for each request made, tabulated.
FetchAndCompute ==
    [k \in RequestKinds |-> {TryBlock(k[1], f, k[3]) : f \in GetOhlcv(k[2], k[3])}]

NoValue == [zones |-> <<>>, data |-> <<>>, computed_at |-> 0 - 1]

\* CacheService.get with the client raising: the exception leaves get.
CacheServiceGetRaising(up, store, key, t) ==
    IF ~up THEN [raised |-> TRUE, hit |-> FALSE, value |-> NoValue]
    ELSE IF \E e \in store : e.key = key /\ t < e.expires
    THEN [raised |-> FALSE, hit |-> TRUE,
          value |-> (CHOOSE e \in store : e.key = key /\ t < e.expires).value]
    ELSE [raised |-> FALSE, hit |-> FALSE, value |-> NoValue]

\* CacheService.get: the cached value, or None on a miss and on any error.
CacheServiceGet(up, store, key, t) ==
    IF ~up THEN [raised |-> FALSE, hit |-> FALSE, value |-> NoValue]
    ELSE IF \E e \in store : e.key = key /\ t < e.expires
    THEN [raised |-> FALSE, hit |-> TRUE,
          value |-> (CHOOSE e \in store : e.key = key /\ t < e.expires).value]
    ELSE [raised |-> FALSE, hit |-> FALSE, value |-> NoValue]

\* CacheService.set with the client raising: the exception leaves set.
CacheServiceSetRaising(up) == [raised |-> ~up, ok |-> up]

\* CacheService.set: True when stored, False on any error.
CacheServiceSet(up) == [raised |-> FALSE, ok |-> up]

\* redis setex(key, ttl, value): the entry replaces the key's entry.
Setex(store, key, value, t) ==
    {e \in store : e.key # key} \cup {[key |-> key, value |-> value, expires |-> t + TtlTicks]}

InitRoute ==
    /\ df = <<>>
    /\ detector = RouteDetector
    /\ result = NoResult
    /\ calls = 0
    /\ cache = {}
    /\ redisUp = TRUE
    /\ reqs = <<>>
    /\ computed = {}
    /\ last_request_time = 0
    /\ callers = <<>>
    /\ sent = {}
    /\ now = 0

\* A request arrives: GET /api/keylevels or /api/data ?ticker=..&timeframe=..
Receive(route, ticker, tf) ==
    /\ Len(reqs) < MaxRequests
    /\ reqs' = Append(reqs, [route |-> route, ticker |-> ticker, tf |-> tf,
                             pc |-> "check", got |-> "-", put |-> "-",
                             status |-> 0, fetch |-> NoFetch,
                             response |-> NoValue, body |-> NoValue])
    /\ UNCHANGED <<engineVars, limiterVars, cache, redisUp, computed, now>>

\* The request ends with a status and a body; response is the response
\* object the handler built, if it came that far.
Finish(r, got, put, status, response, body) ==
    [r EXCEPT !.pc = "done", !.got = got, !.put = put, !.status = status,
              !.response = response, !.body = body]

\* Either handler up to the cache lookup: the timeframe is validated, the
\* key is made, and a cached response is returned when there is one.
CheckCache(i) ==
    /\ i \in 1..Len(reqs)
    /\ reqs[i].pc = "check"
    /\ \E r \in {reqs[i]} :
       \E cached_data \in {CacheServiceGet(redisUp, cache, MakeKey(r.route, r.ticker, r.tf), now)} :
          reqs' = [reqs EXCEPT ![i] =
                IF r.tf \notin VALID_TIMEFRAMES
                THEN Finish(r, "-", "-", 400, NoValue, NoValue)
                ELSE IF cached_data.raised
                THEN Finish(r, "raised", "-", 500, NoValue, NoValue)
                ELSE IF cached_data.hit
                THEN Finish(r, "hit", "-", 200, NoValue, cached_data.value)
                ELSE [r EXCEPT !.pc = "compute",
                               !.got = IF redisUp THEN "miss" ELSE "None on error"]]
    /\ UNCHANGED <<engineVars, limiterVars, cache, redisUp, computed, now>>

\* The try block: provider fetch, the computation, the conversion to the
\* schema, cache.set and the return.  An exception ends the request with
\* the status its handler gives.
ComputeAndReturn(i) ==
    /\ i \in 1..Len(reqs)
    /\ reqs[i].pc = "compute"
    /\ \E r \in {[reqs[i] EXCEPT !.fetch = NoFetch]} :
       \E c \in FetchAndCompute[<<r.route, r.ticker, r.tf>>] :
       \E response \in {[zones |-> c.zones, data |-> c.data, computed_at |-> now]} :
       \E stored \in {CacheServiceSet(redisUp)} :
          /\ reqs' = [reqs EXCEPT ![i] =
                [(IF c.status # 200
                  THEN Finish(r, r.got, "-", c.status, NoValue, NoValue)
                  ELSE IF stored.raised
                  THEN Finish(r, r.got, "raised", 500, response, NoValue)
                  ELSE Finish(r, r.got, IF stored.ok THEN "True" ELSE "False",
                              200, response, response))
                 EXCEPT !.fetch = c.fetch]]
          /\ cache' = IF c.status = 200 /\ stored.ok
                      THEN Setex(cache, MakeKey(r.route, r.ticker, r.tf), response, now)
                      ELSE cache
          /\ computed' = IF c.detected
                         THEN computed \cup {[req |-> i, at |-> now,
                                              key |-> MakeKey(r.route, r.ticker, r.tf)]}
                         ELSE computed
    /\ UNCHANGED <<engineVars, limiterVars, redisUp, now>>

\* Time passes; Redis drops the entries whose TTL has run out.
Tick ==
    /\ now < MaxTime
    /\ now' = now + 1
    /\ cache' = {e \in cache : now + 1 < e.expires}
    /\ UNCHANGED <<engineVars, limiterVars, redisUp, reqs, computed>>

\* The Redis client starts raising (connection lost), and stops.
RedisFails ==
    /\ redisUp
    /\ redisUp' = FALSE
    /\ UNCHANGED <<engineVars, limiterVars, cache, reqs, computed, now>>

RedisRecovers ==
    /\ ~redisUp
    /\ redisUp' = TRUE
    /\ UNCHANGED <<engineVars, limiterVars, cache, reqs, computed, now>>

NextRoute ==
    \/ \E k \in RequestKinds : Receive(k[1], k[2], k[3])
    \/ \E i \in 1..MaxRequests : CheckCache(i)
    \/ \E i \in 1..MaxRequests : ComputeAndReturn(i)
    \/ Tick
    \/ RedisFails
    \/ RedisRecovers

SpecRoute == InitRoute /\ [][NextRoute]_vars

\* C9: of the fresh computations made for one cache key, no two fall
\* within one TTL window.
C9_OneComputationPerWindow ==
    \A a, b \in computed :
        (a.req # b.req /\ a.key = b.key) => Abs(b.at - a.at) >= TtlTicks

\* C10: the cache service never raises, and a request whose cache lookup
\* missed or failed ends as the computation alone decides: with 200 and the
\* response it computed whether or not the cache write succeeded, with the
\* computation's own error otherwise.
C10_CacheNeverFailsRequest ==
    /\ \A k \in {MakeKey(q[1], q[2], q[3]) : q \in RequestKinds} :
          /\ ~CacheServiceGet(redisUp, cache, k, now).raised
          /\ ~redisUp => ~CacheServiceGet(redisUp, cache, k, now).hit
    /\ ~CacheServiceSet(redisUp).raised
    /\ ~redisUp => ~CacheServiceSet(redisUp).ok
    /\ \A i \in 1..Len(reqs) :
          LET r == reqs[i]
          IN  (r.pc = "done" /\ r.got \in {"miss", "None on error"}) =>
                  \/ r.response = NoValue /\ r.put = "-" /\ r.status \in {400, 500}
                  \/ r.response # NoValue /\ r.put \in {"True", "False"}
                        /\ r.status = 200 /\ r.body = r.response

\* A request that met a failing cache in both get and set, and was answered.
C10_Witness ==
    \E i \in 1..Len(reqs) :
        /\ reqs[i].pc = "done"
        /\ reqs[i].got = "None on error"
        /\ reqs[i].put = "False"
        /\ reqs[i].status = 200
        /\ Len(reqs[i].body.zones) > 0

\* C11: a request for which the provider returned an empty series is
\* answered with status 404, on /api/keylevels and on /api/data.
C11_EmptySeriesIs404 ==
    \A i \in 1..Len(reqs) :
        (reqs[i].pc = "done" /\ reqs[i].fetch.called
            /\ ~reqs[i].fetch.raised /\ reqs[i].fetch.rows = 0)
                => reqs[i].status = 404

\* No upstream source has rows of the ticker within the lookback.
NoUpstreamData(ticker) ==
    /\ "rows" \notin YFinanceOutcomes(ticker)
    /\ "rows" \notin AlphaVantageOutcomes(ticker)

\* C12: when no upstream source has data for the ticker, get_ohlcv raises
\* or returns an empty series, never rows of its own making.
C12_NoInventedData ==
    \A i \in 1..Len(reqs) :
        (reqs[i].fetch.called /\ NoUpstreamData(reqs[i].ticker))
            => (reqs[i].fetch.raised \/ reqs[i].fetch.rows = 0)

\* The step that ends request i's try block.
EndsTry(i) == reqs[i].pc = "compute" /\ reqs'[i].pc = "done"

\* C13: a request whose fetch raised or gave no rows, or whose try block
\* failed in any other way, ends with an error status and a body without
\* zones and leaves the cache as it was; the cache gets a new entry only
\* in the step that ends a request with 200, and the entry is that
\* request's complete response under its key.
C13_AllOrNothing ==
    [][/\ \A i \in 1..Len(reqs) :
            EndsTry(i) =>
                /\ (reqs'[i].fetch.raised \/ reqs'[i].fetch.rows = 0)
                        => reqs'[i].status \in {400, 500}
                /\ reqs'[i].status # 200
                        => (reqs'[i].body = NoValue /\ cache' = cache)
       /\ \A e \in cache' \ cache :
            \E i \in 1..Len(reqs) :
                /\ EndsTry(i)
                /\ reqs'[i].status = 200
                /\ reqs'[i].response # NoValue
                /\ e.value = reqs'[i].response
                /\ reqs'[i].body = reqs'[i].response
                /\ e.key = MakeKey(reqs[i].route, reqs[i].ticker, reqs[i].tf)
      ]_vars

\* A request that failed after its fetch while the cache held a response
\* under its key, and the entry is still there.
C13_Witness ==
    \E i \in 1..Len(reqs) :
        /\ reqs[i].pc = "done"
        /\ reqs[i].fetch.called
        /\ reqs[i].status = 500
        /\ reqs[i].body = NoValue
        /\ \E e \in cache :
              /\ e.key = MakeKey(reqs[i].route, reqs[i].ticker, reqs[i].tf)
              /\ Len(e.value.zones) > 0

\* C14: a request whose timeframe is not one of 1d, 4h, 1h, 15m ends with
\* 400 in its first step, on either route: it made no cache lookup, no
\* provider fetch, no computation and no cache write.
C14_TimeframeRejectedFirst ==
    \A i \in 1..Len(reqs) :
        (reqs[i].pc # "check" /\ reqs[i].tf \notin {"1d", "4h", "1h", "15m"}) =>
            /\ reqs[i].pc = "done"
            /\ reqs[i].status = 400
            /\ reqs[i].got = "-"
            /\ reqs[i].put = "-"
            /\ ~reqs[i].fetch.called
            /\ reqs[i].response = NoValue
            /\ reqs[i].body = NoValue
            /\ \A c \in computed : c.req # i

\* Both routes have refused a request for 5m bars while the same ticker's
\* daily levels were in the cache.
C14_Witness ==
    /\ \E i \in 1..Len(reqs) :
          reqs[i].route = "keylevels" /\ reqs[i].tf = "5m" /\ reqs[i].status = 400
    /\ \E i \in 1..Len(reqs) :
          reqs[i].route = "data" /\ reqs[i].tf = "5m" /\ reqs[i].status = 400

MeanRange(bars) ==
    SumOver([i \in 1..Len(bars) |-> bars[i].high - bars[i].low], 1, Len(bars)) \div Len(bars)

\* The ATR lookback of the detector: atr_period, or the default period 14.
AtrLookback == IF detector.class = "KeyLevelsDetector" THEN detector.atr_period ELSE ATR_PERIOD

\* C17: on a series of at least one bar and fewer bars than the ATR
\* lookback, _calculate_atr of either engine returns the mean of
\* high - low over the whole series, a finite number >= 0.
C17_AtrFallback ==
    (calls > 0 /\ result.call = <<"_calculate_atr">>
        /\ Len(df) >= 1 /\ Len(df) < AtrLookback)
            => /\ result.out = MeanRange(df)
               /\ ~IsNaN(result.out)
               /\ result.out >= 0

\* The bars (1-based) that are not within `window` of either end and whose
\* value is strictly beyond the value of every other bar at most `window`
\* bars away: above for sign = 1 (highs), below for sign = -1 (lows).
StrictExtremes(values, window, sign) ==
    {i \in (window + 1)..(Len(values) - window) :
        \A j \in 1..Len(values) :
            (j # i /\ Abs(i - j) <= window) => sign * values[j] < sign * values[i]}

\* pivots lists exactly the bars of the set, in bar order, as <<time, value>>.
ListsBars(pivots, bars, values, set) ==
    /\ Len(pivots) = Cardinality(set)
    /\ {pivots[k] : k \in 1..Len(pivots)} = {<<bars[i].time, values[i]>> : i \in set}
    /\ \A k \in 1..(Len(pivots) - 1) : pivots[k][1] < pivots[k + 1][1]

\* Every bar has the same open, high, low and close.
IsFlat(bars) ==
    \A i \in 1..Len(bars) :
        /\ bars[i].open = bars[1].open /\ bars[i].high = bars[1].open
        /\ bars[i].low = bars[1].open /\ bars[i].close = bars[1].open

\* C18: _find_pivot_highs reports exactly the bars not within
\* pivot_window of either end whose high is strictly above the high of
\* every other bar at most pivot_window away, and _find_pivot_lows the
\* mirror image on the lows; so, for a pivot window of at least one bar, a
\* series of identical bars has no pivots and detect_zones finds no zones.
C18_StrictPivots ==
    calls > 0 =>
        /\ result.call = <<"_find_pivots">> =>
              /\ ListsBars(result.out.highs, df, Highs(df),
                           StrictExtremes(Highs(df), detector.pivot_window, 1))
              /\ ListsBars(result.out.lows, df, Lows(df),
                           StrictExtremes(Lows(df), detector.pivot_window, 0 - 1))
        /\ (result.call = <<"_find_pivots">> /\ IsFlat(df) /\ detector.pivot_window >= 1)
              => (result.out.highs = <<>> /\ result.out.lows = <<>>)
        /\ (result.call = <<"detect_zones">> /\ IsFlat(df) /\ detector.pivot_window >= 1
                /\ result.out.status = "ok")
              => result.out.zones = <<>>

\* A series with pivot highs and with a bar away from the ends that is
\* the highest of its window but tied with a neighbour, and is no pivot.
C18_Witness ==
    /\ calls > 0
    /\ result.call = <<"_find_pivots">>
    /\ detector.pivot_window >= 1
    /\ Len(result.out.highs) > 0
    /\ \E i \in (detector.pivot_window + 1)..(Len(df) - detector.pivot_window) :
          /\ \A k \in 1..Len(result.out.highs) : result.out.highs[k][1] # df[i].time
          /\ \A j \in 1..Len(df) :
                Abs(i - j) <= detector.pivot_window => df[j].high <= df[i].high

\* detect_zones' scored_zones: the resistance zones, then the support
\* zones, each group in the order _cluster_levels made them, scored.
ScoredZones(bars, det) ==
    LET tolerance == Mul(CalculateAtr(bars, det.atr_period), det.atr_multiplier)
    IN  ScoreZones(ClusterLevels(FindPivotHighs(bars, det.pivot_window),
                                 tolerance, "resistance")
                   \o ClusterLevels(FindPivotLows(bars, det.pivot_window),
                                    tolerance, "support"),
                   bars)

\* zones is a selection from all, listed by strength from the strongest
\* down, equal strengths in the order they have in all, and nothing
\* outside the selection is stronger than anything in it.
StrongestFirst(zones, all) ==
    /\ \A k \in 1..Len(zones) : \E i \in 1..Len(all) : all[i] = zones[k]
    /\ \A pos \in {[k \in 1..Len(zones) |-> CHOOSE i \in 1..Len(all) : all[i] = zones[k]]} :
          /\ \A k \in 1..(Len(zones) - 1) :
                \/ zones[k].strength > zones[k + 1].strength
                \/ zones[k].strength = zones[k + 1].strength /\ pos[k] < pos[k + 1]
          /\ \A i \in (1..Len(all)) \ {pos[k] : k \in 1..Len(zones)} :
                \A k \in 1..Len(zones) : all[i].strength <= zones[k].strength

\* C19: detect_zones returns its zones by strength, strongest first; zones
\* of equal strength stay in insertion order, which puts resistance zones
\* before support zones and each group in ascending price; no zone left
\* out is stronger than a zone returned.
C19_OrderedByStrength ==
    (Returned /\ IsKLD) =>
        \A all \in {ScoredZones(df, detector)} :
            /\ StrongestFirst(result.zones, all)
            /\ \A i, j \in 1..Len(all) :
                  i < j => \/ all[i].type = "resistance" /\ all[j].type = "support"
                           \/ all[i].type = all[j].type
                                /\ all[i].price_low < all[j].price_low

\* A call that returned two zones of equal strength and left a zone out.
C19_Witness ==
    /\ Returned /\ IsKLD
    /\ Len(result.zones) = 2
    /\ result.zones[1].strength = result.zones[2].strength
    /\ Len(ScoredZones(df, detector)) > 2

\* The prices of the pivots in ascending order: the k-th is the price with
\* fewer than k pivots below it and at least k pivots not above it.
AscendingPrices(pivots) ==
    [k \in 1..Len(pivots) |->
        CHOOSE p \in {pivots[i][2] : i \in 1..Len(pivots)} :
            /\ Cardinality({i \in 1..Len(pivots) : pivots[i][2] < p}) < k
            /\ k <= Cardinality({i \in 1..Len(pivots) : pivots[i][2] <= p})]

\* The number of pivots in the first z zones.
TouchesUpTo(zones, z) == SumOver([i \in 1..Len(zones) |-> zones[i].touches], 1, z)

\* C20: _cluster_levels cuts the pivots, taken in ascending price order,
\* into zones exactly at the gaps wider than the tolerance: two pivots
\* next to each other in price are in one zone if and only if their gap
\* is <= tolerance, whatever their times; each zone is centered on the
\* mean price of its pivots.  Pivot highs at 100.0 and 100.2 make one zone
\* with tolerance 0.3 and two zones with tolerance 0.03.
C20_SingleLinkage ==
    (calls > 0 /\ result.call[1] = "_cluster_levels") =>
        \A pivots \in {result.call[2]}, tolerance \in {result.call[3]}, zones \in {result.out} :
        \A sorted \in {AscendingPrices(pivots)} :
            /\ TouchesUpTo(zones, Len(zones)) = Len(pivots)
            /\ \A z \in 1..Len(zones) : zones[z].touches >= 1
            /\ \A k \in 1..(Len(pivots) - 1) :
                  (k \notin {TouchesUpTo(zones, z) : z \in 1..Len(zones)})
                      <=> sorted[k + 1] - sorted[k] <= tolerance
            /\ \A z \in 1..Len(zones) :
                  zones[z].price_low + (tolerance \div 2)
                      = SumOver(sorted, TouchesUpTo(zones, z - 1) + 1, TouchesUpTo(zones, z))
                            \div zones[z].touches
            /\ (pivots = ScenarioPivots /\ tolerance = 300) => Len(zones) = 1
            /\ (pivots = ScenarioPivots /\ tolerance = 30) => Len(zones) = 2

\* The two pivots of the scenario clustered twice: into one zone of two
\* touches with tolerance 0.3, then into two zones with tolerance 0.03.
C20_Witness ==
    /\ calls = 2
    /\ result.prev = <<"_cluster_levels", ScenarioPivots, 300>>
    /\ result.call = <<"_cluster_levels", ScenarioPivots, 30>>
    /\ Len(result.out) = 2
    /\ Len(ClusterLevels(ScenarioPivots, 300, "resistance")) = 1
    /\ ClusterLevels(ScenarioPivots, 300, "resistance")[1].touches = 2

C22_BrokenLevelFilter ==
    (calls > 0 /\ result.call[1] = "_remove_broken_levels") =>
        \A zones \in {result.call[2]} :
            result.out =
                SelectSeqBy(zones,
                    [k \in 1..Len(zones) |->
                        ~ \E i \in 1..Len(df) :
                            /\ df[i].low < zones[k].price_low
                            /\ df[i].high > zones[k].price_high
                            /\ ~ \E j \in (i + 1)..Min2(i + 20, Len(df)) :
                                    Abs(df[j].close - ZoneMid(zones[k]))
                                        < zones[k].price_high - zones[k].price_low])

\* C23: _merge_nearby_zones cuts the candidates, sorted by price center,
\* into consecutive runs, one merged zone per run, so that every candidate
\* is in exactly one merged zone.  Within a run every candidate after the
\* first has its center within merge_tolerance_atr * atr of the mean center
\* of the candidates of the run before it, and the candidate after the run
\* has not.  A merged zone's bounds are the means of its members' bounds,
\* its touches their sum and its last_touch_time their latest; so there are
\* at most as many merged zones as candidates, with the same total touches.
C23_MergerPartition ==
    (calls > 0 /\ result.call[1] = "_merge_nearby_zones") =>
        \A zones \in {result.call[2]}, merged \in {result.out} :
        \A tolerance \in {Mul(result.call[3], detector.merge_tolerance_atr)} :
        \A sorted \in {PySorted(zones, [i \in 1..Len(zones) |-> ZoneMid(zones[i])], FALSE)} :
        \A touched \in {[k \in 0..Len(sorted) |-> TouchesUpTo(sorted, k)]} :
            /\ Len(merged) <= Len(zones)
            /\ TouchesUpTo(merged, Len(merged)) = touched[Len(sorted)]
            /\ \A z \in 1..Len(merged) :
                  \E first, last \in 1..Len(sorted) :
                      /\ first <= last
                      /\ touched[first - 1] = TouchesUpTo(merged, z - 1)
                      /\ touched[last] = TouchesUpTo(merged, z)
                      /\ \A k \in (first + 1)..last :
                            Abs(ZoneMid(sorted[k]) - ClusterMid(SubSeq(sorted, first, k - 1)))
                                <= tolerance
                      /\ last < Len(sorted) =>
                            Abs(ZoneMid(sorted[last + 1]) - ClusterMid(SubSeq(sorted, first, last)))
                                > tolerance
                      /\ merged[z].price_low
                            = SumOver([k \in 1..Len(sorted) |-> sorted[k].price_low], first, last)
                                  \div (last - first + 1)
                      /\ merged[z].price_high
                            = SumOver([k \in 1..Len(sorted) |-> sorted[k].price_high], first, last)
                                  \div (last - first + 1)
                      /\ merged[z].touches = touched[last] - touched[first - 1]
                      /\ \E k \in first..last :
                            sorted[k].last_touch_time = merged[z].last_touch_time
                      /\ \A k \in first..last :
                            sorted[k].last_touch_time <= merged[z].last_touch_time

\* Candidates of several generators merged into fewer zones, more than
\* one, with a run that the mean center ended although the next candidate
\* was within the tolerance of the run's last one.
C23_Witness ==
    /\ calls > 0
    /\ result.call[1] = "_merge_nearby_zones"
    /\ Len(result.out) >= 2
    /\ Len(result.out) < Len(result.call[2])
    /\ \E z \in 1..Len(result.out) : Cardinality(result.out[z].sources) > 1
    /\ \E z \in 1..(Len(result.out) - 1) :
          /\ result.out[z].touches >= 2
          /\ ZoneMid(result.out[z + 1]) - ZoneMid(result.out[z])
                < 2 * Mul(result.call[3], detector.merge_tolerance_atr)

\* C24: every zone detect_levels returns has a confidence in [0, 100] and a
\* strength equal to its confidence / 100, so the returned zones sorted by
\* confidence and sorted by strength are the same list.
C24_ConfidenceAndStrength ==
    (Returned /\ IsIKL) =>
        /\ \A i \in 1..Len(result.zones) :
              /\ ~IsNaN(result.zones[i].confidence)
              /\ 0 <= result.zones[i].confidence
              /\ result.zones[i].confidence <= 100 * Unit
              /\ result.zones[i].strength = result.zones[i].confidence \div 100
        /\ PySorted(result.zones,
                    [i \in 1..Len(result.zones) |-> result.zones[i].confidence], TRUE)
              = PySorted(result.zones,
                         [i \in 1..Len(result.zones) |-> result.zones[i].strength], TRUE)

\* C25: every candidate of _detect_rejection_zones comes from a bar that
\* passes the pivot detector's test with window 5: a rejection_high from a
\* bar whose high is strictly above the highs of the 5 bars on each side, a
\* rejection_low from a bar whose low is strictly below their lows; a bar
\* that only ties a neighbour yields no candidate.
C25_RejectionUsesPivotTest ==
    (calls > 0 /\ result.call[1] = "_detect_rejection_zones") =>
        \A k \in 1..Len(result.out) :
            \A i \in 1..Len(df) :
                df[i].time = result.out[k].last_touch_time =>
                    /\ 5 < i /\ i <= Len(df) - 5
                    /\ "rejection_high" \in result.out[k].sources => IsPivotHigh(df, 5, i)
                    /\ "rejection_low" \in result.out[k].sources => IsPivotLow(df, 5, i)

\* C26: the candidates handed to the merger that come from the rejection
\* and structure-break generators have one touch and those from the
\* consolidation generator two; so with min_touches >= 2 every candidate
\* handed to the merger is a volume node or a consolidation and no merged
\* or returned zone carries a reaction_strength, and with min_touches >= 3
\* every candidate is a volume node and no merged zone has more than one
\* source, which is what the multi-source bonus requires.
C26_SourcesByMinTouches ==
    (calls > 0 /\ IsIKL) =>
        /\ result.call[1] = "_merge_nearby_zones" =>
              \A zones \in {result.call[2]}, merged \in {result.out} :
                  /\ \A k \in 1..Len(zones) :
                        /\ zones[k].sources \subseteq
                                {"rejection_high", "rejection_low", "structure_break"}
                              => zones[k].touches = 1
                        /\ zones[k].sources = {"consolidation_expansion"}
                              => zones[k].touches = 2
                        /\ detector.min_touches >= 2
                              => zones[k].sources \subseteq
                                    {"volume_node", "consolidation_expansion"}
                        /\ detector.min_touches >= 3 => zones[k].sources = {"volume_node"}
                  /\ \A z \in 1..Len(merged) :
                        /\ detector.min_touches >= 2 => ~merged[z].has_reaction_strength
                        /\ detector.min_touches >= 3 => Cardinality(merged[z].sources) <= 1
        /\ (result.call[1] = "detect_levels" /\ detector.min_touches >= 2) =>
              \A z \in 1..Len(result.out.zones) : ~result.out.zones[z].has_reaction_strength

\* The route's detector handing volume nodes to the merger on a frame for
\* which the rejection and the consolidation generators have candidates.
C26_Witness ==
    /\ calls > 0 /\ IsIKL
    /\ result.call[1] = "_merge_nearby_zones"
    /\ detector.min_touches = 3
    /\ Len(result.call[2]) > 0
    /\ DetectRejectionZones(df, result.call[3], detector) # <<>>
    /\ DetectConsolidationExpansion(df, result.call[3]) # <<>>

\* C27: a /api/keylevels request for which the provider returned rows, so
\* that detect_levels was called and returned its zones, is answered 200:
\* the schema accepts every zone type the classifier assigns and the route
\* never answers 400 or 500 for what the engine returned.
C27_EngineOutputAccepted ==
    \A i \in 1..Len(reqs) :
        (reqs[i].pc = "done" /\ reqs[i].route = "keylevels"
            /\ reqs[i].fetch.called /\ ~reqs[i].fetch.raised /\ reqs[i].fetch.rows > 0)
                => reqs[i].status = 200

\* ---------------------------------------------------------------------------
\* AlphaVantageProvider.get_ohlcv: the rate limiter in front of the HTTP request.
\* Time is in seconds.  Each caller runs the method once; callers interleave at
\* the statements that read or write the class variable _last_request_time.
\* ---------------------------------------------------------------------------

\* if time_since_last_request < 12 / wait_time = 12 - time_since_last_request
MIN_INTERVAL == 12

\* requests.get(self.BASE_URL, params=params, timeout=10)
REQUEST_TIMEOUT == 10

\* number of callers of get_ohlcv
MaxCallers == 2

\* time.time() when the first caller arrives, and the last second observed
StartTime == 20
MaxClock == 44

CallerIds == 1..MaxCallers

InitLimiter ==
    /\ df = <<>>
    /\ detector = RouteDetector
    /\ result = NoResult
    /\ calls = 0
    /\ cache = {}
    /\ redisUp = TRUE
    /\ reqs = <<>>
    /\ computed = {}
    /\ now = StartTime
    /\ last_request_time = 0
    /\ callers = [c \in CallerIds |-> [pc |-> "called", wake |-> 0, issued |-> 0]]
    /\ sent = {}

\* current_time = time.time(); time_since_last_request = current_time - _last_request_time;
\* the branch on time_since_last_request < 12 and the computation of wait_time
CheckRateLimit(c) ==
    /\ callers[c].pc = "called"
    /\ \E time_since_last_request \in {now - last_request_time} :
          IF time_since_last_request < MIN_INTERVAL
          THEN callers' = [callers EXCEPT ![c].pc = "sleeping",
                                          ![c].wake = now + (MIN_INTERVAL - time_since_last_request)]
          ELSE callers' = [callers EXCEPT ![c].pc = "ready"]
    /\ UNCHANGED <<engineVars, routeVars, last_request_time, sent>>

\* time.sleep(wait_time) returns once wait_time has passed
SleepReturns(c) ==
    /\ callers[c].pc = "sleeping"
    /\ now >= callers[c].wake
    /\ callers' = [callers EXCEPT ![c].pc = "ready"]
    /\ UNCHANGED <<engineVars, routeVars, last_request_time, sent>>

\* requests.get(...) issues the HTTP request
SendRequest(c) ==
    /\ callers[c].pc = "ready"
    /\ sent' = sent \cup {[caller |-> c, at |-> now]}
    /\ callers' = [callers EXCEPT ![c].pc = "in_flight", ![c].issued = now]
    /\ UNCHANGED <<engineVars, routeVars, last_request_time>>

\* requests.get returns a response; AlphaVantageProvider._last_request_time = time.time()
ResponseArrives(c) ==
    /\ callers[c].pc = "in_flight"
    /\ last_request_time' = now
    /\ callers' = [callers EXCEPT ![c].pc = "returned"]
    /\ UNCHANGED <<engineVars, routeVars, sent>>

\* requests.get raises (connection error, or no answer within the timeout): the
\* assignment to _last_request_time is skipped and the except clause re-raises
RequestRaises(c) ==
    /\ callers[c].pc = "in_flight"
    /\ callers' = [callers EXCEPT ![c].pc = "raised"]
    /\ UNCHANGED <<engineVars, routeVars, last_request_time, sent>>

\* a second passes; a request in flight is over by its timeout
TickLimiter ==
    /\ now < MaxClock
    /\ \A c \in CallerIds :
          callers[c].pc = "in_flight" => now < callers[c].issued + REQUEST_TIMEOUT
    /\ now' = now + 1
    /\ UNCHANGED <<engineVars, cache, redisUp, reqs, computed, limiterVars>>

NextLimiter ==
    \/ \E c \in CallerIds : CheckRateLimit(c)
    \/ \E c \in CallerIds : SleepReturns(c)
    \/ \E c \in CallerIds : SendRequest(c)
    \/ \E c \in CallerIds : ResponseArrives(c)
    \/ \E c \in CallerIds : RequestRaises(c)
    \/ TickLimiter

SpecLimiter == InitLimiter /\ [][NextLimiter]_vars

\* C28: any two HTTP requests sent to Alpha Vantage are issued at least
\* MIN_INTERVAL (12) seconds apart, whatever the interleaving of the callers and
\* whether or not an earlier request failed.
C28_RequestsSpacedApart ==
    \A a \in sent : \A b \in sent :
        a.caller # b.caller =>
            \/ a.at - b.at >= MIN_INTERVAL
            \/ b.at - a.at >= MIN_INTERVAL

\* C29: no two zones of the list detect_levels returns overlap in price: of
\* any two returned zones one lies wholly below the other.
C29_ReturnedZonesDisjoint ==
    (Returned /\ IsIKL) =>
        \A i \in 1..Len(result.zones) : \A j \in 1..Len(result.zones) :
            i # j =>
                \/ result.zones[i].price_high < result.zones[j].price_low
                \/ result.zones[j].price_high < result.zones[i].price_low

\* C30: within one list returned by detect_zones or by detect_levels the zone
\* ids are pairwise distinct: no two zones of the result have the same hashed
\* text (type, center to two decimals, and in detect_zones the cluster size).
C30_IdsDistinct ==
    Returned =>
        \A i \in 1..Len(result.zones) : \A j \in 1..Len(result.zones) :
            i # j => result.zones[i].id # result.zones[j].id

====
